---- MODULE Spec2Model ----
(***************************************************************************)
(* LiteShare upload rate limiter (src/src/lib/rate-limit.ts).              *)
(*                                                                         *)
(* The store is the module-level Map from rate limit keys to entries.      *)
(* Every exported function of the module is synchronous, so under the      *)
(* JavaScript event loop one invocation runs to completion before another  *)
(* starts.  Spec models each call as one action; SpecConc models the       *)
(* statements of overlapping invocations under the event loop.             *)
(***************************************************************************)
EXTENDS Integers, Sequences, FiniteSets, Bags, TLC

VARIABLES store, now, last, run, hist, inv, burst, db, uploads, audit, users

vars == <<store, now, last, run, hist, inv, burst, db, uploads, audit, users>>

(***************************************************************************)
(* Bounds of the model.                                                    *)
(***************************************************************************)
\* the clock runs over w * windowMs + m with w <= MaxWindows, m <= MaxMs
MaxWindows == 1
MaxMs == 1

(***************************************************************************)
(* Configuration: rate-limit.ts lines 22-45.                               *)
(***************************************************************************)
GUEST_RATE_LIMIT ==
    [windowMs |-> 24 * 60 * 60 * 1000,
     maxRequests |-> 10,
     maxBytes |-> 32 * 1024 * 1024]

AUTH_RATE_LIMIT ==
    [windowMs |-> 24 * 60 * 60 * 1000,
     maxRequests |-> 100,
     maxBytes |-> 512 * 1024 * 1024]

getConfig(isAuthenticated) ==
    IF isAuthenticated THEN AUTH_RATE_LIMIT ELSE GUEST_RATE_LIMIT

(***************************************************************************)
(* Inputs.                                                                 *)
(***************************************************************************)
Keys == {"ip:1.2.3.4"}

\* byte sizes handed to checkRateLimit and releaseRateLimit
FileSizes == {0, GUEST_RATE_LIMIT.maxBytes, AUTH_RATE_LIMIT.maxBytes}

\* amounts by which Date.now() advances between two calls
TickSteps == {1, GUEST_RATE_LIMIT.windowMs}

MaxNow == MaxWindows * GUEST_RATE_LIMIT.windowMs + MaxMs

\* the clock values the model visits
ClockOK(t) ==
    /\ t <= MaxNow
    /\ t % GUEST_RATE_LIMIT.windowMs <= MaxMs

(***************************************************************************)
(* Arithmetic of the JavaScript built-ins the module uses.                 *)
(***************************************************************************)
Max(a, b) == IF a >= b THEN a ELSE b

\* Math.ceil(x / d) for an integer x and d > 0
CeilDiv(x, d) == -((-x) \div d)

RECURSIVE Gcd(_, _)
Gcd(a, b) == IF b = 0 THEN a ELSE Gcd(b, a % b)

\* (totalBytes / maxBytes) * 100 as a fraction in lowest terms
Percentage(totalBytes, maxBytes) ==
    LET g == Gcd(totalBytes, maxBytes)
        n == totalBytes \div g
        d == maxBytes \div g
        h == Gcd(100, d)
    IN  [num |-> n * (100 \div h), den |-> d \div h]

(***************************************************************************)
(* The Map: a function whose domain is the set of keys that have an entry. *)
(***************************************************************************)
EmptyStore == [k \in {} |-> 0]

MapHas(s, k) == k \in DOMAIN s

MapSet_Clobbers(s, k, e) == [x \in {k} |-> e]

MapSet(s, k, e) == [x \in (DOMAIN s) \cup {k} |-> IF x = k THEN e ELSE s[x]]

MapDelete(s, k) == [x \in (DOMAIN s) \ {k} |-> s[x]]

(***************************************************************************)
(* checkRateLimit, lines 73-146, for a given configuration.                *)
(***************************************************************************)
\* mutant: the window ends one millisecond early (>= for >)
IsStale_Inclusive(s, k, t, config) ==
    \/ ~MapHas(s, k)
    \/ t - s[k].firstAttempt >= config.windowMs

\* line 93: the entry is missing or its window has elapsed
IsStale(s, k, t, config) ==
    \/ ~MapHas(s, k)
    \/ t - s[k].firstAttempt > config.windowMs

\* mutant: a new entry already counts the request that creates it
FreshEntry_CountsOne(t) == [count |-> 1, firstAttempt |-> t, totalBytes |-> 0]

\* lines 94-98
FreshEntry(t) == [count |-> 0, firstAttempt |-> t, totalBytes |-> 0]

\* mutant: an elapsed window is restarted but its usage is carried over
CurrentEntry_CarriesUsage(s, k, t, config) ==
    IF ~MapHas(s, k) THEN FreshEntry(t)
    ELSE IF t - s[k].firstAttempt > config.windowMs
    THEN [s[k] EXCEPT !.firstAttempt = t]
    ELSE s[k]

\* lines 90-99: the entry the call works on
CurrentEntry(s, k, t, config) ==
    IF IsStale(s, k, t, config) THEN FreshEntry(t) ELSE s[k]

\* mutant: the request ceiling admits one call too many (> for >=)
Decide_CountOffByOne(entry, fileSize, config) ==
    IF entry.count > config.maxRequests THEN "rate_limit_requests"
    ELSE IF entry.totalBytes + fileSize > config.maxBytes THEN "rate_limit_bytes"
    ELSE "admit"

\* mutant: the byte ceiling rejects a request that exactly fills it (>= for >)
Decide_BytesOffByOne(entry, fileSize, config) ==
    IF entry.count >= config.maxRequests THEN "rate_limit_requests"
    ELSE IF entry.totalBytes + fileSize >= config.maxBytes THEN "rate_limit_bytes"
    ELSE "admit"

\* mutant: the byte ceiling is tested before the request ceiling
Decide_BytesFirst(entry, fileSize, config) ==
    IF entry.totalBytes + fileSize > config.maxBytes THEN "rate_limit_bytes"
    ELSE IF entry.count >= config.maxRequests THEN "rate_limit_requests"
    ELSE "admit"

\* lines 107 and 120, in the order the code tests them
Decide(entry, fileSize, config) ==
    IF entry.count >= config.maxRequests THEN "rate_limit_requests"
    ELSE IF entry.totalBytes + fileSize > config.maxBytes THEN "rate_limit_bytes"
    ELSE "admit"

\* mutant: the admitted bytes are not added to the entry
Charge_DropsBytes(entry, fileSize) ==
    [count |-> entry.count + 1,
     firstAttempt |-> entry.firstAttempt,
     totalBytes |-> entry.totalBytes]

\* lines 134-135
Charge(entry, fileSize) ==
    [count |-> entry.count + 1,
     firstAttempt |-> entry.firstAttempt,
     totalBytes |-> entry.totalBytes + fileSize]

\* mutant: the entry is stored before the ceilings are tested
StoreAfterReject_Persists(s, key, entry) == MapSet(s, key, entry)

\* lines 108-117 and 121-130 return before the store is written
StoreAfterReject(s, key, entry) == s

\* mutant: the charged entry is not written to the store
StoreAfterAdmit_Skips(s, key, entry) == s

\* line 136
StoreAfterAdmit(s, key, entry) == MapSet(s, key, entry)

\* mutant: a rejection that does not say when to retry
RejectedResult_NoRetryAfter(entry, t, config, reason) ==
    [success |-> FALSE,
     remaining |-> 0,
     resetAt |-> entry.firstAttempt + config.windowMs,
     limit |-> config.maxRequests,
     remainingBytes |-> 0,
     totalBytes |-> entry.totalBytes,
     reason |-> reason]

\* lines 108-117 and 121-130
RejectedResult(entry, t, config, reason) ==
    LET windowEnd == entry.firstAttempt + config.windowMs
        remaining == Max(0, config.maxRequests - entry.count)
        remainingBytes == Max(0, config.maxBytes - entry.totalBytes)
    IN  [success |-> FALSE,
         remaining |-> IF reason = "rate_limit_requests" THEN 0 ELSE remaining,
         resetAt |-> windowEnd,
         limit |-> config.maxRequests,
         remainingBytes |-> IF reason = "rate_limit_requests" THEN 0
                            ELSE remainingBytes,
         totalBytes |-> entry.totalBytes,
         retryAfter |-> CeilDiv(windowEnd - t, 1000),
         reason |-> reason]

\* lines 138-145; remaining and remainingBytes are the values of lines
\* 102-103, computed before the entry was charged
AdmittedResult(remaining, remainingBytes, fileSize, config, updated) ==
    [success |-> TRUE,
     remaining |-> remaining - 1,
     resetAt |-> updated.firstAttempt + config.windowMs,
     limit |-> config.maxRequests,
     remainingBytes |-> remainingBytes - fileSize,
     totalBytes |-> updated.totalBytes]

checkRateLimitWith(s, t, key, fileSize, config) ==
    LET entry == CurrentEntry(s, key, t, config)
        remaining == Max(0, config.maxRequests - entry.count)
        remainingBytes == Max(0, config.maxBytes - entry.totalBytes)
        decision == Decide(entry, fileSize, config)
    IN  IF decision # "admit"
        THEN [store |-> StoreAfterReject(s, key, entry),
              result |-> RejectedResult(entry, t, config, decision)]
        ELSE LET updated == Charge(entry, fileSize)
             IN  [store |-> StoreAfterAdmit(s, key, updated),
                  result |-> AdmittedResult(remaining, remainingBytes,
                                            fileSize, config, updated)]

checkRateLimit(s, t, key, fileSize, isAuthenticated) ==
    checkRateLimitWith(s, t, key, fileSize, getConfig(isAuthenticated))

(***************************************************************************)
(* getRateLimitStatus, lines 151-191.                                      *)
(***************************************************************************)
\* mutant: the usage of an elapsed window is still reported
getRateLimitStatusWith_IgnoresExpiry(s, t, key, config) ==
    IF ~MapHas(s, key)
    THEN [remaining |-> config.maxRequests,
          resetAt |-> t + config.windowMs,
          limit |-> config.maxRequests,
          remainingBytes |-> config.maxBytes,
          totalBytes |-> 0,
          percentageUsed |-> [num |-> 0, den |-> 1]]
    ELSE LET entry == s[key]
         IN  [remaining |-> Max(0, config.maxRequests - entry.count),
              resetAt |-> entry.firstAttempt + config.windowMs,
              limit |-> config.maxRequests,
              remainingBytes |-> Max(0, config.maxBytes - entry.totalBytes),
              totalBytes |-> entry.totalBytes,
              percentageUsed |-> Percentage(entry.totalBytes, config.maxBytes)]

getRateLimitStatusWith(s, t, key, config) ==
    IF IsStale(s, key, t, config)
    THEN [remaining |-> config.maxRequests,
          resetAt |-> t + config.windowMs,
          limit |-> config.maxRequests,
          remainingBytes |-> config.maxBytes,
          totalBytes |-> 0,
          percentageUsed |-> [num |-> 0, den |-> 1]]
    ELSE LET entry == s[key]
         IN  [remaining |-> Max(0, config.maxRequests - entry.count),
              resetAt |-> entry.firstAttempt + config.windowMs,
              limit |-> config.maxRequests,
              remainingBytes |-> Max(0, config.maxBytes - entry.totalBytes),
              totalBytes |-> entry.totalBytes,
              percentageUsed |-> Percentage(entry.totalBytes, config.maxBytes)]

getRateLimitStatus(s, t, key, isAuthenticated) ==
    getRateLimitStatusWith(s, t, key, getConfig(isAuthenticated))

\* mutant: like checkRateLimit, the status call stores the fresh entry it
\* reports for a key that is missing or whose window has elapsed
StoreAfterStatus_Persists(s, t, key, config) ==
    IF IsStale(s, key, t, config) THEN MapSet(s, key, FreshEntry(t)) ELSE s

\* lines 162-190 contain no set and no delete on the store
StoreAfterStatus(s, t, key, config) == s

(***************************************************************************)
(* resetRateLimit (196-198), releaseRateLimit (203-212) and the sweeper    *)
(* cleanupExpiredEntries (50-57).                                          *)
(***************************************************************************)
resetRateLimit(s, key) == MapDelete(s, key)

\* mutant: the decrements are not floored at 0
releaseRateLimit_NoFloor(s, key, fileSize) ==
    IF MapHas(s, key)
    THEN MapSet(s, key, [count |-> s[key].count - 1,
                         firstAttempt |-> s[key].firstAttempt,
                         totalBytes |-> s[key].totalBytes - fileSize])
    ELSE s

\* mutant: an entry whose window has elapsed is left alone
releaseRateLimit_FreshOnly(s, key, fileSize) ==
    IF MapHas(s, key) /\ now - s[key].firstAttempt <= GUEST_RATE_LIMIT.windowMs
    THEN MapSet(s, key, [count |-> Max(0, s[key].count - 1),
                         firstAttempt |-> s[key].firstAttempt,
                         totalBytes |-> Max(0, s[key].totalBytes - fileSize)])
    ELSE s

\* mutant: a key without an entry gets an empty one
releaseRateLimit_CreatesEntry(s, key, fileSize) ==
    LET e == IF MapHas(s, key) THEN s[key] ELSE FreshEntry(now)
    IN  MapSet(s, key, [count |-> Max(0, e.count - 1),
                        firstAttempt |-> e.firstAttempt,
                        totalBytes |-> Max(0, e.totalBytes - fileSize)])

\* mutant: the count is returned but the bytes are not
releaseRateLimit_CountOnly(s, key, fileSize) ==
    IF MapHas(s, key)
    THEN MapSet(s, key, [count |-> Max(0, s[key].count - 1),
                         firstAttempt |-> s[key].firstAttempt,
                         totalBytes |-> s[key].totalBytes])
    ELSE s

releaseRateLimit(s, key, fileSize) ==
    IF MapHas(s, key)
    THEN MapSet(s, key, [count |-> Max(0, s[key].count - 1),
                         firstAttempt |-> s[key].firstAttempt,
                         totalBytes |-> Max(0, s[key].totalBytes - fileSize)])
    ELSE s

\* mutant: the sweeper removes an entry at the last millisecond of its window
SweepExpired_Swapped(entry, t) ==
    entry.firstAttempt - t > GUEST_RATE_LIMIT.windowMs

SweepExpired_Inclusive(entry, t) ==
    t - entry.firstAttempt >= GUEST_RATE_LIMIT.windowMs

\* line 53
SweepExpired(entry, t) == t - entry.firstAttempt > GUEST_RATE_LIMIT.windowMs

cleanupExpiredEntries(s, t) ==
    LET keep == {k \in DOMAIN s : ~SweepExpired(s[k], t)}
    IN  [k \in keep |-> s[k]]

(***************************************************************************)
(* Call history of a key, kept beside the store: the number of             *)
(* checkRateLimit calls admitted in a row, under one policy and inside one *)
(* window, since the key had no entry, and the bytes they asked for.       *)
(***************************************************************************)
Broken == [n |-> -1]

FreshRun == [n |-> 0]

RunAfterCheck(r, s, t, key, fileSize, isAuthenticated, result) ==
    LET config == getConfig(isAuthenticated)
        base == IF ~MapHas(s, key) \/ r.n = 0
                THEN [n |-> 0, isAuthenticated |-> isAuthenticated,
                      start |-> t, bytes |-> 0]
                ELSE r
    IN  IF base.n = -1 THEN Broken
        ELSE IF base.isAuthenticated # isAuthenticated THEN Broken
        ELSE IF t - base.start > config.windowMs THEN Broken
        ELSE IF result.success
             THEN [base EXCEPT !.n = @ + 1, !.bytes = @ + fileSize]
        ELSE IF result.reason = "rate_limit_requests" THEN base
        ELSE Broken

\* the run a call on key continues, if any
RunBefore(r, s, t, key, isAuthenticated) ==
    IF ~MapHas(s, key) \/ r.n = 0
    THEN [n |-> 0, isAuthenticated |-> isAuthenticated, start |-> t, bytes |-> 0]
    ELSE IF r.n = -1 THEN Broken
    ELSE IF r.isAuthenticated # isAuthenticated THEN Broken
    ELSE IF t - r.start > getConfig(isAuthenticated).windowMs THEN Broken
    ELSE r

(***************************************************************************)
(* The File table of the application (prisma.file) before any upload, and  *)
(* the record kept of what each uploaded file was charged and released.    *)
(***************************************************************************)
NoFiles == [id \in {} |-> 0]

NoAudit == [id \in {} |-> 0]

(***************************************************************************)
(* Spec: the calls of the module, one at a time.                           *)
(***************************************************************************)
Init ==
    /\ store = EmptyStore
    /\ now = 0
    /\ last = [op |-> "init"]
    /\ run = [k \in Keys |-> FreshRun]
    /\ hist = <<>>
    /\ inv = EmptyBag
    /\ burst = [mode |-> "none"]
    /\ db = NoFiles
    /\ uploads = {}
    /\ audit = NoAudit
    /\ users = {}

Tick(d) ==
    /\ ClockOK(now + d)
    /\ now' = now + d
    /\ last' = [op |-> "tick", d |-> d]
    /\ UNCHANGED <<store, run, hist, inv, burst, db, uploads, audit, users>>

Check(key, fileSize, isAuthenticated) ==
    LET out == checkRateLimit(store, now, key, fileSize, isAuthenticated)
    IN  /\ store' = out.store
        /\ last' = [op |-> "check", key |-> key, fileSize |-> fileSize,
                    isAuthenticated |-> isAuthenticated, before |-> store,
                    result |-> out.result]
        /\ run' = [run EXCEPT ![key] =
                      RunAfterCheck(run[key], store, now, key, fileSize,
                                    isAuthenticated, out.result)]
        /\ UNCHANGED <<now, hist, inv, burst, db, uploads, audit, users>>

Status(key, isAuthenticated) ==
    /\ last' = [op |-> "status", key |-> key, isAuthenticated |-> isAuthenticated,
                before |-> store,
                result |-> getRateLimitStatus(store, now, key, isAuthenticated)]
    /\ store' = StoreAfterStatus(store, now, key, getConfig(isAuthenticated))
    /\ UNCHANGED <<now, run, hist, inv, burst, db, uploads, audit, users>>

Release(key, fileSize) ==
    /\ store' = releaseRateLimit(store, key, fileSize)
    /\ last' = [op |-> "release", key |-> key, fileSize |-> fileSize,
                before |-> store]
    /\ run' = [run EXCEPT ![key] = IF MapHas(store, key) THEN Broken ELSE FreshRun]
    /\ UNCHANGED <<now, hist, inv, burst, db, uploads, audit, users>>

Reset(key) ==
    /\ store' = resetRateLimit(store, key)
    /\ last' = [op |-> "reset", key |-> key, before |-> store]
    /\ run' = [run EXCEPT ![key] = FreshRun]
    /\ UNCHANGED <<now, hist, inv, burst, db, uploads, audit, users>>

Sweep ==
    /\ store' = cleanupExpiredEntries(store, now)
    /\ last' = [op |-> "sweep", before |-> store]
    /\ run' = [k \in Keys |-> IF MapHas(store', k) THEN run[k] ELSE FreshRun]
    /\ UNCHANGED <<now, hist, inv, burst, db, uploads, audit, users>>

Next ==
    \/ \E d \in TickSteps : Tick(d)
    \/ \E k \in Keys, s \in FileSizes, a \in BOOLEAN : Check(k, s, a)
    \/ \E k \in Keys, a \in BOOLEAN : Status(k, a)
    \/ \E k \in Keys, s \in FileSizes : Release(k, s)
    \/ \E k \in Keys : Reset(k)
    \/ Sweep

Spec == Init /\ [][Next]_vars

TypeOK ==
    /\ now \in 0..MaxNow
    /\ DOMAIN store \subseteq Keys
    /\ \A k \in DOMAIN store :
          /\ store[k].count \in 0..AUTH_RATE_LIMIT.maxRequests
          /\ store[k].firstAttempt \in 0..now

(***************************************************************************)
(* SpecExample: the example policy of the specification, run through       *)
(* lines 87-146.  Calls of 400 bytes on one key, at most three, while the  *)
(* clock advances in seconds up to ten seconds.                            *)
(***************************************************************************)
ExamplePolicy == [windowMs |-> 60 * 1000, maxRequests |-> 2, maxBytes |-> 1000]

ExampleKey == "k"

ExampleSizes == {400}

ExampleCalls == {1, 2, 3}

ExampleSpanMs == 10 * 1000

ExampleStepMs == {1000}

ExTick(d) ==
    /\ burst.mode = "example"
    /\ now + d <= ExampleSpanMs
    /\ now' = now + d
    /\ last' = [op |-> "tick", d |-> d]
    /\ UNCHANGED <<store, run, hist, inv, burst, db, uploads, audit, users>>

ExCheck(fileSize) ==
    LET out == checkRateLimitWith(store, now, ExampleKey, fileSize, ExamplePolicy)
    IN  /\ burst.mode = "example"
        /\ Len(hist) + 1 \in ExampleCalls
        /\ store' = out.store
        /\ hist' = Append(hist, out.result)
        /\ last' = [op |-> "check", key |-> ExampleKey, fileSize |-> fileSize,
                    before |-> store, result |-> out.result]
        /\ UNCHANGED <<now, run, inv, burst, db, uploads, audit, users>>

InitExample ==
    /\ store = EmptyStore
    /\ now = 0
    /\ last = [op |-> "init"]
    /\ run = [k \in Keys |-> FreshRun]
    /\ hist = <<>>
    /\ inv = EmptyBag
    /\ burst = [mode |-> "example"]
    /\ db = NoFiles
    /\ uploads = {}
    /\ audit = NoAudit
    /\ users = {}

NextExample ==
    \/ \E d \in ExampleStepMs : ExTick(d)
    \/ \E s \in ExampleSizes : ExCheck(s)

SpecExample == InitExample /\ [][NextExample]_vars

(***************************************************************************)
(* SpecConc: the statements of overlapping invocations.  A request handler *)
(* calls checkRateLimit or releaseRateLimit, and the interval timer calls  *)
(* cleanupExpiredEntries, whenever the event loop dispatches it.  inv is   *)
(* the bag of invocations that have started and not returned, each with    *)
(* its local variables; an entry obtained from the Map is the stored       *)
(* object itself (alias), so assigning to its fields changes the store.    *)
(***************************************************************************)
\* bounds: calls beyond maxRequests in a burst, calls in a mixed scenario
MaxExtra == 2
MaxOps == 4

\* byte sizes of a burst: any maxRequests + MaxExtra of them fit maxBytes
\* (a guest burst mixes three sizes, an authenticated burst has one)
BurstSizes(isAuthenticated) ==
    IF isAuthenticated THEN {1024 * 1024}
    ELSE {0, 1024 * 1024, 2 * 1024 * 1024}

NoEntry == [count |-> 0, firstAttempt |-> 0, totalBytes |-> 0]

\* mutant: a call is dispatched while another one is between its read and
\* its write, as if the function awaited in between
EventLoopIdle_Overlap(b) == BagCardinality(b) <= 1

\* none of the three functions is async or awaits: a call runs from its
\* first statement to its return before the event loop dispatches another
EventLoopIdle(b) == b = EmptyBag

Invocation(op, pc, key, fileSize, isAuthenticated, entry, alias, todo) ==
    [op |-> op, pc |-> pc, key |-> key, fileSize |-> fileSize,
     isAuthenticated |-> isAuthenticated, t |-> now, entry |-> entry,
     alias |-> alias, todo |-> todo, snap |-> store,
     remaining |-> 0, remainingBytes |-> 0]

\* the object the local variable entry refers to
View(r) == IF r.alias /\ MapHas(store, r.key) THEN store[r.key] ELSE r.entry

Started(r) == inv (+) SetToBag({r})

Returned(r) == inv (-) SetToBag({r})

Moved(r, r2) == (inv (-) SetToBag({r})) (+) SetToBag({r2})

\* an assignment to a field of entry
Assign(r, e, pc) ==
    IF r.alias /\ MapHas(store, r.key)
    THEN /\ store' = MapSet(store, r.key, e)
         /\ inv' = Moved(r, [r EXCEPT !.pc = pc])
    ELSE /\ store' = store
         /\ inv' = Moved(r, [r EXCEPT !.pc = pc, !.entry = e])

Stepped == last' = [op |-> "step"]

\* lines 87-99
CallCheck(key, fileSize, isAuthenticated) ==
    LET config == getConfig(isAuthenticated)
    IN  /\ burst.mode \in {"burst", "mixed"}
        /\ burst.pending > 0
        /\ burst.mode = "burst" =>
              /\ isAuthenticated = burst.isAuthenticated
              /\ fileSize \in BurstSizes(isAuthenticated)
        /\ burst.mode = "mixed" => fileSize \in FileSizes
        /\ EventLoopIdle(inv)
        /\ inv' = Started(Invocation("check", "decide", key, fileSize,
                                     isAuthenticated,
                                     CurrentEntry(store, key, now, config),
                                     ~IsStale(store, key, now, config), {}))
        /\ burst' = [burst EXCEPT !.pending = @ - 1]
        /\ Stepped
        /\ UNCHANGED <<store, now, run, hist, db, uploads, audit, users>>

\* lines 101-131
StepDecide(r) ==
    LET config == getConfig(r.isAuthenticated)
        entry == View(r)
        decision == Decide(entry, r.fileSize, config)
    IN  /\ r.op = "check"
        /\ r.pc = "decide"
        /\ IF decision # "admit"
           THEN /\ store' = StoreAfterReject(store, r.key, entry)
                /\ inv' = Returned(r)
                /\ last' = [op |-> "check", key |-> r.key,
                            fileSize |-> r.fileSize,
                            isAuthenticated |-> r.isAuthenticated,
                            before |-> r.snap, at |-> r.t,
                            result |-> RejectedResult(entry, r.t, config, decision)]
                /\ burst' = [burst EXCEPT !.rejected = @ + 1]
           ELSE /\ inv' = Moved(r, [r EXCEPT
                         !.pc = "count",
                         !.remaining = Max(0, config.maxRequests - entry.count),
                         !.remainingBytes = Max(0, config.maxBytes - entry.totalBytes)])
                /\ Stepped
                /\ UNCHANGED <<store, burst>>
        /\ UNCHANGED <<now, run, hist, db, uploads, audit, users>>

\* line 134 of checkRateLimit, line 207 of releaseRateLimit
StepCount(r) ==
    LET e == View(r)
    IN  /\ r.pc = "count"
        /\ Assign(r, [e EXCEPT !.count = IF r.op = "check" THEN @ + 1
                                         ELSE Max(0, @ - 1)], "bytes")
        /\ Stepped
        /\ UNCHANGED <<now, run, hist, burst, db, uploads, audit, users>>

\* line 135 of checkRateLimit, line 209 of releaseRateLimit
StepBytes(r) ==
    LET e == View(r)
    IN  /\ r.pc = "bytes"
        /\ Assign(r, [e EXCEPT !.totalBytes = IF r.op = "check" THEN @ + r.fileSize
                                              ELSE Max(0, @ - r.fileSize)], "set")
        /\ Stepped
        /\ UNCHANGED <<now, run, hist, burst, db, uploads, audit, users>>

\* lines 136-145 of checkRateLimit, lines 210-211 of releaseRateLimit
StepSet(r) ==
    LET e == View(r)
    IN  /\ r.pc = "set"
        /\ store' = IF r.op = "check" THEN StoreAfterAdmit(store, r.key, e)
                    ELSE MapSet(store, r.key, e)
        /\ inv' = Returned(r)
        /\ IF r.op = "check"
           THEN /\ last' = [op |-> "check", key |-> r.key,
                            fileSize |-> r.fileSize,
                            isAuthenticated |-> r.isAuthenticated,
                            before |-> r.snap, at |-> r.t,
                            result |-> AdmittedResult(r.remaining, r.remainingBytes,
                                           r.fileSize,
                                           getConfig(r.isAuthenticated), e)]
                /\ burst' = [burst EXCEPT !.admitted = @ + 1]
           ELSE /\ last' = [op |-> "release", key |-> r.key,
                            fileSize |-> r.fileSize,
                            before |-> r.snap, at |-> r.t]
                /\ burst' = burst
        /\ UNCHANGED <<now, run, hist, db, uploads, audit, users>>

\* lines 204-205
CallRelease(key, fileSize) ==
    /\ burst.mode = "mixed"
    /\ burst.pending > 0
    /\ EventLoopIdle(inv)
    /\ burst' = [burst EXCEPT !.pending = @ - 1]
    /\ IF MapHas(store, key)
       THEN /\ inv' = Started(Invocation("release", "count", key, fileSize,
                                         FALSE, store[key], TRUE, {}))
            /\ Stepped
       ELSE /\ inv' = inv
            /\ last' = [op |-> "release", key |-> key, fileSize |-> fileSize,
                        before |-> store, at |-> now]
    /\ UNCHANGED <<store, now, run, hist, db, uploads, audit, users>>

\* lines 162-190: getRateLimitStatus reads the Map once and returns.
\* inflight is the bag of invocations that had started and not returned.
CallStatus(key, isAuthenticated) ==
    /\ burst.mode = "mixed"
    /\ burst.pending > 0
    /\ EventLoopIdle(inv)
    /\ burst' = [burst EXCEPT !.pending = @ - 1]
    /\ store' = StoreAfterStatus(store, now, key, getConfig(isAuthenticated))
    /\ last' = [op |-> "status", key |-> key, isAuthenticated |-> isAuthenticated,
                before |-> store, at |-> now, inflight |-> inv,
                result |-> getRateLimitStatus(store, now, key, isAuthenticated)]
    /\ UNCHANGED <<now, run, hist, inv, db, uploads, audit, users>>

\* lines 51-52: the timer of line 60 fires
CallSweep ==
    /\ burst.mode \in {"burst", "mixed"}
    /\ EventLoopIdle(inv)
    /\ inv' = Started(Invocation("sweep", "scan", "", 0, FALSE, NoEntry,
                                 FALSE, DOMAIN store))
    /\ Stepped
    /\ UNCHANGED <<store, now, run, hist, burst, db, uploads, audit, users>>

\* lines 52-56: one iteration of the loop, or its end
StepScan(r) ==
    /\ r.op = "sweep"
    /\ r.pc = "scan"
    /\ IF r.todo = {}
       THEN /\ inv' = Returned(r)
            /\ last' = [op |-> "sweep", before |-> r.snap, at |-> r.t]
            /\ store' = store
       ELSE \E k \in r.todo :
               /\ store' = IF MapHas(store, k) /\ SweepExpired(store[k], r.t)
                           THEN MapDelete(store, k)
                           ELSE store
               /\ inv' = Moved(r, [r EXCEPT !.todo = @ \ {k}])
               /\ Stepped
    /\ UNCHANGED <<now, run, hist, burst, db, uploads, audit, users>>

ConcTick(d) ==
    /\ burst.mode \in {"burst", "mixed"}
    /\ Tick(d)

\* maxRequests + k calls under one policy, for each policy and each k
Bursts ==
    {[mode |-> "burst", isAuthenticated |-> a,
      pending |-> getConfig(a).maxRequests + k, extra |-> k,
      admitted |-> 0, rejected |-> 0] : a \in BOOLEAN, k \in 1..MaxExtra}

\* MaxOps calls of any kind
Mixed ==
    {[mode |-> "mixed", isAuthenticated |-> FALSE,
      pending |-> MaxOps, extra |-> 0,
      admitted |-> 0, rejected |-> 0]}

Scenarios == Bursts \cup Mixed

InitConc ==
    /\ store = EmptyStore
    /\ now = 0
    /\ last = [op |-> "init"]
    /\ run = [k \in Keys |-> FreshRun]
    /\ hist = <<>>
    /\ inv = EmptyBag
    /\ burst \in Scenarios
    /\ db = NoFiles
    /\ uploads = {}
    /\ audit = NoAudit
    /\ users = {}

NextConc ==
    \/ \E d \in TickSteps : ConcTick(d)
    \/ \E k \in Keys, s \in FileSizes \cup BurstSizes(TRUE) \cup BurstSizes(FALSE), a \in BOOLEAN :
          CallCheck(k, s, a)
    \/ \E k \in Keys, s \in FileSizes : CallRelease(k, s)
    \/ \E k \in Keys, a \in BOOLEAN : CallStatus(k, a)
    \/ CallSweep
    \/ \E r \in BagToSet(inv) : StepDecide(r)
    \/ \E r \in BagToSet(inv) : StepCount(r)
    \/ \E r \in BagToSet(inv) : StepBytes(r)
    \/ \E r \in BagToSet(inv) : StepSet(r)
    \/ \E r \in BagToSet(inv) : StepScan(r)

SpecConc == InitConc /\ [][NextConc]_vars

(***************************************************************************)
(* SpecApp: the request handlers of the application that call the limiter. *)
(* A handler is one action for every stretch of its code that runs between *)
(* two awaited calls on which another request can change what it reads:    *)
(* the upload middleware is one step, and the handlers that read the File  *)
(* table and write it later are a first step and the steps that follow it, *)
(* with the request kept in inv in between.  db is the File table, keyed   *)
(* by the generated id of the row, users the User table, uploads the files *)
(* admitted by a middleware whose onUploadComplete has not run yet, and    *)
(* audit remembers, for every admitted file, the key its upload was        *)
(* charged to and every releaseRateLimit call made for it.                 *)
(***************************************************************************)
MaxFiles == 2

MaxBatch == 2

MaxRows == 2

MaxFailures == 1

MaxInflight == 2

MaxRequests == 3

Null == ""

Users == {"u1"}

Ips == {"1.2.3.4", "5.6.7.8"}

GuestIds == {"g1"}

Routes == {"guestUploader", "imageUploader", "fileUploader"}

MB == 1024 * 1024

FILE_SIZE_LIMITS ==
    [guest |-> [image |-> 16 * MB, pdf |-> 16 * MB, text |-> 16 * MB,
                blob |-> 16 * MB, video |-> 16 * MB, audio |-> 16 * MB],
     auth  |-> [image |-> 64 * MB, pdf |-> 64 * MB, text |-> 64 * MB,
                blob |-> 64 * MB, video |-> 64 * MB, audio |-> 64 * MB]]

FILE_COUNT_LIMITS == [guest |-> 2, auth |-> 8]

\* The names every object literal inherits from Object.prototype.
ObjectPrototypeNames ==
    {"constructor", "toString", "toLocaleString", "valueOf", "hasOwnProperty",
     "isPrototypeOf", "propertyIsEnumerable", "__proto__", "__defineGetter__",
     "__defineSetter__", "__lookupGetter__", "__lookupSetter__"}

\* What a comparison with an inherited member (a function or an object)
\* converts it to.
NotANumber == -1

\* A file of an upload request.  type is the MIME type as its segments
\* between "/", so that "image/png" is <<"image", "png">>.
UploadedFile(size, type) == [size |-> size, type |-> type]

PlainType == <<"image", "png">>

AppSizes == {FILE_SIZE_LIMITS.guest.blob, FILE_SIZE_LIMITS.auth.blob}

AppFiles == {UploadedFile(s, PlainType) : s \in AppSizes}

Batches == UNION {[1..n -> AppFiles] : n \in 1..MaxBatch}

getRateLimitKey_NoPrefix(userId, ip) ==
    IF userId # Null THEN userId ELSE ip

getRateLimitKey_PerAddress(userId, ip) ==
    IF userId # Null THEN ("user:" \o userId) \o ("@" \o ip) ELSE "ip:" \o ip

getRateLimitKey(userId, ip) ==
    IF userId # Null THEN "user:" \o userId ELSE "ip:" \o ip

\* limits[fileType] || limits.blob
LimitOf(limits, fileType) ==
    IF fileType \in DOMAIN limits THEN limits[fileType]
    ELSE IF fileType \in ObjectPrototypeNames THEN NotANumber
    ELSE limits.blob

validateFileSize(file, isGuest) ==
    LET limits == IF isGuest THEN FILE_SIZE_LIMITS.guest ELSE FILE_SIZE_LIMITS.auth
        fileType == Head(file.type)
        limit == LimitOf(limits, fileType)
    IN  ~(limit # NotANumber /\ file.size > limit)

validateFileCount(files, isGuest) ==
    LET limit == IF isGuest THEN FILE_COUNT_LIMITS.guest ELSE FILE_COUNT_LIMITS.auth
    IN  ~(Len(files) > limit)

RECURSIVE TotalSize(_)
TotalSize(files) ==
    IF files = <<>> THEN 0 ELSE Head(files).size + TotalSize(Tail(files))

\* Whether the route treats the request as a guest upload.
RouteIsGuest(route, userId) ==
    CASE route = "guestUploader" -> TRUE
      [] route = "imageUploader" -> FALSE
      [] route = "fileUploader"  -> userId = Null

\* The identity the route derives the key from.
RouteKey(route, userId, ip) ==
    CASE route = "guestUploader" -> getRateLimitKey(Null, ip)
      [] route = "imageUploader" -> getRateLimitKey(userId, ip)
      [] route = "fileUploader"  -> getRateLimitKey(userId, ip)

\* What the middleware throws before it reaches the limiter, if anything.
UploadRefusal(route, userId, files) ==
    IF route = "imageUploader" /\ userId = Null THEN "sign_in"
    ELSE IF ~validateFileCount(files, RouteIsGuest(route, userId)) THEN "too_many_files"
    ELSE IF \E i \in 1..Len(files) : ~validateFileSize(files[i], RouteIsGuest(route, userId))
         THEN "file_too_large"
    ELSE "none"

\* The two reasons the middleware throws for after a rejection.
ThrownReasons == {"rate_limit_requests", "rate_limit_bytes"}

uploadMiddleware_ChargesFirst(s, t, route, userId, ip, files) ==
    LET refusal == UploadRefusal(route, userId, files)
        key == RouteKey(route, userId, ip)
        out == checkRateLimit(s, t, key, TotalSize(files), ~RouteIsGuest(route, userId))
        called == refusal = "none"
    IN  [refusal |-> refusal, key |-> key, called |-> called,
         success |-> called /\ out.result.success,
         proceeds |-> called /\ (out.result.success
                                    \/ out.result.reason \notin ThrownReasons),
         store |-> out.store]

\* The middleware of one route for one request at time t on the store s:
\* whether it reached checkRateLimit, what the call answered, whether the
\* upload goes ahead, and the store it leaves.
uploadMiddleware(s, t, route, userId, ip, files) ==
    LET refusal == UploadRefusal(route, userId, files)
        key == RouteKey(route, userId, ip)
        out == checkRateLimit(s, t, key, TotalSize(files), ~RouteIsGuest(route, userId))
        called == refusal = "none"
    IN  [refusal |-> refusal, key |-> key, called |-> called,
         success |-> called /\ out.result.success,
         proceeds |-> called /\ (out.result.success
                                    \/ out.result.reason \notin ThrownReasons),
         store |-> IF called THEN out.store ELSE s]

Allocated == Cardinality(DOMAIN audit)

\* burst.left is the number of requests that may still arrive; one more
\* has arrived
Arrived == [burst EXCEPT !.left = @ - 1]

Charged(key, first, files) ==
    [id \in (DOMAIN audit) \cup ((first + 1)..(first + Len(files))) |->
        IF id \in DOMAIN audit THEN audit[id]
        ELSE [key |-> key, size |-> files[id - first].size,
              releases |-> <<>>, deleted |-> FALSE]]

\* The upload middleware of one route for one request of one or more files.
UploadRequest(route, userId, ip, files) ==
    LET m == uploadMiddleware(store, now, route, userId, ip, files)
    IN  /\ burst.left > 0
        /\ m.proceeds => Allocated + Len(files) <= MaxFiles
        /\ burst' = Arrived
        /\ store' = m.store
        /\ uploads' = IF m.proceeds
                      THEN uploads \cup ((Allocated + 1)..(Allocated + Len(files)))
                      ELSE uploads
        /\ audit' = IF m.proceeds THEN Charged(m.key, Allocated, files) ELSE audit
        /\ last' = [op |-> "upload", called |-> m.called, status |-> 0]
        /\ UNCHANGED <<now, run, hist, inv, db, users>>

\* onUploadComplete of a file whose transfer has ended.
UploadComplete(id) ==
    /\ id \in uploads
    /\ uploads' = uploads \ {id}
    /\ last' = [op |-> "upload_complete", called |-> FALSE, status |-> 0]
    /\ UNCHANGED <<store, now, run, hist, inv, burst, db, audit, users>>

\* A request between two steps of its handler: the record it read or is
\* about to write, and the key it derived.
Inflight(op, pc, fileId, row, key) ==
    [op |-> op, pc |-> pc, fileId |-> fileId, row |-> row, key |-> key]

Begun(r) == inv (+) SetToBag({r})

Ended(r) == inv (-) SetToBag({r})

NewRow(uploadThingId, fileSize, userId, guestId, isGuestUpload) ==
    [uploadThingId |-> uploadThingId, size |-> fileSize, userId |-> userId,
     guestId |-> IF isGuestUpload THEN guestId ELSE Null,
     isGuest |-> isGuestUpload]

\* an uploadThingId no upload was given
ForgedId == MaxFiles + 1

\* the record of no file
NoRow == NewRow(ForgedId, 0, Null, Null, FALSE)

UploadThingIds == (DOMAIN audit) \cup {ForgedId}

\* what DELETE /api/files/[fileId] uses of the record it read once it is
\* authorised: file.uploadThingId and file.size
ReadForDelete(file) ==
    [NoRow EXCEPT !.uploadThingId = file.uploadThingId, !.size = file.size]

\* what DELETE /api/dashboard/files/[fileId] uses of it: file.uploadThingId
ReadForDashboard(file) ==
    [NoRow EXCEPT !.uploadThingId = file.uploadThingId]

\* prisma.file.create: the unique index on uploadThingId and the foreign key
\* on userId refuse the row.
CreateRefused(row) ==
    \/ \E id \in DOMAIN db : db[id].uploadThingId = row.uploadThingId
    \/ row.userId # Null /\ row.userId \notin users

\* prisma.file.create and the answer that follows it.
CreateRow(row, b) ==
    IF CreateRefused(row)
    THEN /\ db' = db
         /\ burst' = b
         /\ last' = [op |-> "register", called |-> FALSE, status |-> 500]
    ELSE /\ burst.rows < MaxRows
         /\ db' = MapSet(db, burst.rows + 1, row)
         /\ burst' = [b EXCEPT !.rows = @ + 1]
         /\ last' = [op |-> "register", called |-> FALSE, status |-> 200]

\* POST /api/files up to prisma.user.upsert for a signed-in caller, and to
\* its end for any other.  fileSize 0 stands for a body without the field;
\* clerkOk is whether Clerk returns the caller's profile.
RegisterFile(clerkUserId, guestId, fileSize, uploadThingId, isGuest, clerkOk) ==
    LET isGuestUpload == isGuest \/ clerkUserId = Null
        row == NewRow(uploadThingId, fileSize, clerkUserId, guestId, isGuestUpload)
    IN  /\ burst.left > 0
        /\ IF fileSize = 0
           THEN /\ burst' = Arrived
                /\ UNCHANGED <<inv, db, users>>
                /\ last' = [op |-> "register", called |-> FALSE, status |-> 400]
           ELSE IF clerkUserId # Null /\ ~clerkOk
           THEN /\ burst' = Arrived
                /\ UNCHANGED <<inv, db, users>>
                /\ last' = [op |-> "register", called |-> FALSE, status |-> 500]
           ELSE IF clerkUserId # Null
           THEN /\ BagCardinality(inv) < MaxInflight
                /\ users' = users \cup {clerkUserId}
                /\ inv' = Begun(Inflight("register", "create", 0, row, Null))
                /\ burst' = Arrived
                /\ db' = db
                /\ last' = [op |-> "register", called |-> FALSE, status |-> 0]
           ELSE /\ CreateRow(row, Arrived)
                /\ UNCHANGED <<inv, users>>
        /\ UNCHANGED <<store, now, run, hist, uploads, audit>>

\* POST /api/files of a signed-in caller from prisma.file.create on.
RegisterCreate(r) ==
    /\ r \in BagToSet(inv)
    /\ r.op = "register"
    /\ inv' = Ended(r)
    /\ CreateRow(r.row, burst)
    /\ UNCHANGED <<store, now, run, hist, uploads, audit, users>>

Released(id, key, fileSize) ==
    IF id \in DOMAIN audit
    THEN [audit EXCEPT ![id].releases = Append(@, [key |-> key, size |-> fileSize])]
    ELSE audit

\* the audit once the rows of the uploads ids are gone
Deleted(ids) ==
    [id \in DOMAIN audit |->
        IF id \in ids THEN [audit[id] EXCEPT !.deleted = TRUE] ELSE audit[id]]

MayDelete(file, clerkUserId, guestId) ==
    \/ clerkUserId # Null /\ file.userId = clerkUserId
    \/ /\ clerkUserId = Null
       /\ file.isGuest
       /\ file.guestId # Null
       /\ guestId # Null
       /\ file.guestId = guestId

DeleteFile_ReleasesFirst(fileId, clerkUserId, guestId, ip) ==
    LET key == getRateLimitKey(clerkUserId, ip) IN
    /\ burst.left > 0
    /\ burst' = Arrived
    /\ IF ~MapHas(db, fileId)
       THEN /\ UNCHANGED <<store, inv, audit>>
            /\ last' = [op |-> "delete", called |-> FALSE, status |-> 404]
       ELSE IF ~MayDelete(db[fileId], clerkUserId, guestId)
       THEN /\ store' = releaseRateLimit(store, key, db[fileId].size)
            /\ UNCHANGED <<inv, audit>>
            /\ last' = [op |-> "delete", called |-> FALSE, status |-> 401]
       ELSE /\ BagCardinality(inv) < MaxInflight
            /\ store' = releaseRateLimit(store, key, db[fileId].size)
            /\ audit' = Released(db[fileId].uploadThingId, key, db[fileId].size)
            /\ inv' = Begun(Inflight("delete", "row", fileId,
                                     ReadForDelete(db[fileId]), key))
            /\ last' = [op |-> "delete", called |-> TRUE, status |-> 0]
    /\ UNCHANGED <<now, run, hist, db, uploads, users>>

\* DELETE /api/files/[fileId] from prisma.file.findUnique to the answer 404
\* or 401, or to the deletion of the stored file.
DeleteFile(fileId, clerkUserId, guestId, ip) ==
    LET key == getRateLimitKey(clerkUserId, ip) IN
    /\ burst.left > 0
    /\ burst' = Arrived
    /\ IF ~MapHas(db, fileId)
       THEN /\ UNCHANGED inv
            /\ last' = [op |-> "delete", called |-> FALSE, status |-> 404]
       ELSE IF ~MayDelete(db[fileId], clerkUserId, guestId)
       THEN /\ UNCHANGED inv
            /\ last' = [op |-> "delete", called |-> FALSE, status |-> 401]
       ELSE /\ BagCardinality(inv) < MaxInflight
            /\ inv' = Begun(Inflight("delete", "release", fileId,
                                     ReadForDelete(db[fileId]), key))
            /\ last' = [op |-> "delete", called |-> FALSE, status |-> 0]
    /\ UNCHANGED <<store, now, run, hist, db, uploads, audit, users>>

\* DELETE /api/files/[fileId]: releaseRateLimit with the size read from the
\* record at the start of the request.
DeleteRelease(r) ==
    /\ r \in BagToSet(inv)
    /\ r.op = "delete"
    /\ r.pc = "release"
    /\ store' = releaseRateLimit(store, r.key, r.row.size)
    /\ audit' = Released(r.row.uploadThingId, r.key, r.row.size)
    /\ inv' = (Ended(r)) (+) SetToBag({[r EXCEPT !.pc = "row"]})
    /\ last' = [op |-> "delete_release", called |-> TRUE, status |-> 0]
    /\ UNCHANGED <<now, run, hist, burst, db, uploads, users>>

\* prisma.file.delete: it throws when the record is gone.
RowDeleted(r, dbOk) ==
    IF dbOk /\ MapHas(db, r.fileId)
    THEN /\ db' = MapDelete(db, r.fileId)
         /\ audit' = Deleted({r.row.uploadThingId})
    ELSE UNCHANGED <<db, audit>>

\* DELETE /api/files/[fileId]: prisma.file.delete and the answer.  dbOk is
\* whether the database is reachable; the failures that follow a release of
\* one file are bounded by MaxFailures.
DeleteRow(r, dbOk) ==
    /\ r \in BagToSet(inv)
    /\ r.op = "delete"
    /\ r.pc = "row"
    /\ IF dbOk \/ r.row.uploadThingId \notin DOMAIN audit THEN TRUE
       ELSE Len(audit[r.row.uploadThingId].releases) <= MaxFailures
    /\ RowDeleted(r, dbOk)
    /\ inv' = Ended(r)
    /\ last' = [op |-> "delete_row", called |-> FALSE,
                status |-> IF dbOk /\ MapHas(db, r.fileId) THEN 200 ELSE 500]
    /\ UNCHANGED <<store, now, run, hist, burst, uploads, users>>

\* DELETE /api/dashboard/files/[fileId] from its start to the answer 401,
\* 404 or 403, or to the deletion of the stored file.
DashboardDelete(fileId, userId) ==
    LET status == IF userId = Null THEN 401
                  ELSE IF ~MapHas(db, fileId) THEN 404
                  ELSE IF db[fileId].userId # userId THEN 403
                  ELSE 0
    IN  /\ burst.left > 0
        /\ burst' = Arrived
        /\ IF status = 0
           THEN /\ BagCardinality(inv) < MaxInflight
                /\ inv' = Begun(Inflight("dashboard", "row", fileId,
                                         ReadForDashboard(db[fileId]), Null))
           ELSE UNCHANGED inv
        /\ last' = [op |-> "dashboard_delete", called |-> FALSE, status |-> status]
        /\ UNCHANGED <<store, now, run, hist, db, uploads, audit, users>>

\* DELETE /api/dashboard/files/[fileId]: prisma.file.delete and the answer.
DashboardRow(r, dbOk) ==
    /\ r \in BagToSet(inv)
    /\ r.op = "dashboard"
    /\ RowDeleted(r, dbOk)
    /\ inv' = Ended(r)
    /\ last' = [op |-> "dashboard_row", called |-> FALSE,
                status |-> IF dbOk /\ MapHas(db, r.fileId) THEN 200 ELSE 500]
    /\ UNCHANGED <<store, now, run, hist, burst, uploads, users>>

\* the rows of a user
RowsOf(userId) == {id \in DOMAIN db : db[id].userId = userId}

\* the table and the audit once the rows ids are gone
WithoutRows(ids) ==
    /\ db' = [id \in (DOMAIN db) \ ids |-> db[id]]
    /\ audit' = Deleted({db[id].uploadThingId : id \in ids})

\* DELETE /api/account up to prisma.file.deleteMany.
AccountDelete(clerkUserId) ==
    /\ burst.left > 0
    /\ burst' = Arrived
    /\ IF clerkUserId = Null
       THEN /\ UNCHANGED <<inv, db, audit>>
            /\ last' = [op |-> "account_delete", called |-> FALSE, status |-> 401]
       ELSE /\ BagCardinality(inv) < MaxInflight
            /\ WithoutRows(RowsOf(clerkUserId))
            /\ inv' = Begun(Inflight("account", "user", 0,
                                     [NoRow EXCEPT !.userId = clerkUserId], Null))
            /\ last' = [op |-> "account_delete", called |-> FALSE, status |-> 0]
    /\ UNCHANGED <<store, now, run, hist, uploads, users>>

\* DELETE /api/account: prisma.user.delete, which throws when the user has
\* no record and takes the user's file records with it otherwise, then the
\* deletion of the Clerk account, which succeeds or not (clerkOk).
AccountUser(r, clerkOk) ==
    /\ r \in BagToSet(inv)
    /\ r.op = "account"
    /\ inv' = Ended(r)
    /\ IF r.row.userId \in users
       THEN /\ users' = users \ {r.row.userId}
            /\ WithoutRows(RowsOf(r.row.userId))
            /\ last' = [op |-> "account_user", called |-> FALSE,
                        status |-> IF clerkOk THEN 200 ELSE 500]
       ELSE /\ UNCHANGED <<db, audit, users>>
            /\ last' = [op |-> "account_user", called |-> FALSE, status |-> 500]
    /\ UNCHANGED <<store, now, run, hist, burst, uploads>>

\* POST /api/sync-user: prisma.user.upsert for the signed-in caller once
\* Clerk has returned the profile (clerkOk), 401 for any other caller.
SyncUser(clerkUserId, clerkOk) ==
    /\ burst.left > 0
    /\ burst' = Arrived
    /\ users' = IF clerkUserId # Null /\ clerkOk
               THEN users \cup {clerkUserId} ELSE users
    /\ last' = [op |-> "sync_user", called |-> FALSE,
                status |-> IF clerkUserId = Null THEN 401
                           ELSE IF clerkOk THEN 200 ELSE 500]
    /\ UNCHANGED <<store, now, run, hist, inv, db, uploads, audit>>

\* GET /api/rate-limit.
RateLimitGet(userId, ip) ==
    LET isAuthenticated == userId # Null
        key == getRateLimitKey(userId, ip)
    IN  /\ burst.left > 0
        /\ burst' = Arrived
        /\ store' = StoreAfterStatus(store, now, key, getConfig(isAuthenticated))
        /\ last' = [op |-> "rate_limit", called |-> TRUE, status |-> 200]
        /\ UNCHANGED <<now, run, hist, inv, db, uploads, audit, users>>

InitApp ==
    /\ store = EmptyStore
    /\ now = 0
    /\ last = [op |-> "init", called |-> FALSE, status |-> 0]
    /\ run = [k \in Keys |-> FreshRun]
    /\ hist = <<>>
    /\ inv = EmptyBag
    /\ burst = [mode |-> "app", rows |-> 0, left |-> MaxRequests]
    /\ db = NoFiles
    /\ uploads = {}
    /\ audit = NoAudit
    /\ users = {}

\* The clock moves past the end of a window.
AppTickSteps == {GUEST_RATE_LIMIT.windowMs + 1}

AppTick(d) ==
    /\ ClockOK(now + d)
    /\ now' = now + d
    /\ last' = [op |-> "tick", called |-> FALSE, status |-> 0]
    /\ UNCHANGED <<store, run, hist, inv, burst, db, uploads, audit, users>>

\* The timer of the limiter fires.
AppSweep ==
    /\ store' = cleanupExpiredEntries(store, now)
    /\ last' = [op |-> "sweep", called |-> FALSE, status |-> 0]
    /\ UNCHANGED <<now, run, hist, inv, burst, db, uploads, audit, users>>

\* the sizes a POST /api/files body carries
BodySizes == AppSizes \cup {0}

\* the requests of Batches, and one file above every per-file limit whose
\* type names a member the limits inherit
AppBatches ==
    Batches \cup {<<UploadedFile(FILE_SIZE_LIMITS.auth.blob + 1, <<"constructor", "x">>)>>}

NextApp ==
    \/ \E d \in AppTickSteps : AppTick(d)
    \/ AppSweep
    \/ \E route \in Routes, userId \in Users \cup {Null}, ip \in Ips,
          files \in AppBatches : UploadRequest(route, userId, ip, files)
    \/ \E id \in uploads : UploadComplete(id)
    \/ \E clerkUserId \in Users \cup {Null}, guestId \in GuestIds \cup {Null},
          fileSize \in BodySizes, uploadThingId \in UploadThingIds,
          isGuest \in BOOLEAN, clerkOk \in BOOLEAN :
          RegisterFile(clerkUserId, guestId, fileSize, uploadThingId, isGuest,
                       clerkOk)
    \/ \E r \in BagToSet(inv) : RegisterCreate(r)
    \/ \E clerkUserId \in Users \cup {Null}, clerkOk \in BOOLEAN :
          SyncUser(clerkUserId, clerkOk)
    \/ \E fileId \in 1..MaxRows, clerkUserId \in Users \cup {Null},
          guestId \in GuestIds \cup {Null}, ip \in Ips :
          DeleteFile(fileId, clerkUserId, guestId, ip)
    \/ \E r \in BagToSet(inv) : DeleteRelease(r)
    \/ \E r \in BagToSet(inv), dbOk \in BOOLEAN : DeleteRow(r, dbOk)
    \/ \E fileId \in 1..MaxRows, userId \in Users \cup {Null} :
          DashboardDelete(fileId, userId)
    \/ \E r \in BagToSet(inv), dbOk \in BOOLEAN : DashboardRow(r, dbOk)
    \/ \E clerkUserId \in Users \cup {Null} : AccountDelete(clerkUserId)
    \/ \E r \in BagToSet(inv), clerkOk \in BOOLEAN : AccountUser(r, clerkOk)
    \/ \E userId \in Users \cup {Null}, ip \in Ips : RateLimitGet(userId, ip)

SpecApp == InitApp /\ [][NextApp]_vars

(***************************************************************************)
(* SpecKeys: callers that derive their key with getRateLimitKey and call   *)
(* the limiter on it, as the upload middleware, GET /api/rate-limit and    *)
(* DELETE /api/files/[fileId] do.  hist is the sequence of derivations     *)
(* made so far, at most MaxCalls of them.                                  *)
(***************************************************************************)
MaxCalls == 4

Derived(userId, ip) ==
    [userId |-> userId, ip |-> ip, key |-> getRateLimitKey(userId, ip)]

KeyCheck(userId, ip, fileSize) ==
    LET d == Derived(userId, ip)
        out == checkRateLimit(store, now, d.key, fileSize, userId # Null)
    IN  /\ Len(hist) < MaxCalls
        /\ store' = out.store
        /\ hist' = Append(hist, d)
        /\ last' = [op |-> "check", called |-> TRUE, key |-> d.key, before |-> store]
        /\ UNCHANGED <<now, run, inv, burst, db, uploads, audit, users>>

KeyStatus(userId, ip) ==
    LET d == Derived(userId, ip) IN
    /\ Len(hist) < MaxCalls
    /\ store' = StoreAfterStatus(store, now, d.key, getConfig(userId # Null))
    /\ hist' = Append(hist, d)
    /\ last' = [op |-> "status", called |-> TRUE, key |-> d.key, before |-> store]
    /\ UNCHANGED <<now, run, inv, burst, db, uploads, audit, users>>

KeyRelease(userId, ip, fileSize) ==
    LET d == Derived(userId, ip) IN
    /\ Len(hist) < MaxCalls
    /\ store' = releaseRateLimit(store, d.key, fileSize)
    /\ hist' = Append(hist, d)
    /\ last' = [op |-> "release", called |-> TRUE, key |-> d.key, before |-> store]
    /\ UNCHANGED <<now, run, inv, burst, db, uploads, audit, users>>

\* The timer of the limiter fires between two calls.
KeySweep ==
    /\ store' = cleanupExpiredEntries(store, now)
    /\ last' = [op |-> "sweep", called |-> FALSE]
    /\ UNCHANGED <<now, run, hist, inv, burst, db, uploads, audit, users>>

InitKeys ==
    /\ store = EmptyStore
    /\ now = 0
    /\ last = [op |-> "init", called |-> FALSE]
    /\ run = [k \in Keys |-> FreshRun]
    /\ hist = <<>>
    /\ inv = EmptyBag
    /\ burst = [mode |-> "keys"]
    /\ db = NoFiles
    /\ uploads = {}
    /\ audit = NoAudit
    /\ users = {}

NextKeys ==
    \/ \E d \in AppTickSteps : AppTick(d)
    \/ KeySweep
    \/ \E userId \in Users \cup {Null}, ip \in Ips, fileSize \in AppSizes :
          KeyCheck(userId, ip, fileSize)
    \/ \E userId \in Users \cup {Null}, ip \in Ips : KeyStatus(userId, ip)
    \/ \E userId \in Users \cup {Null}, ip \in Ips, fileSize \in AppSizes :
          KeyRelease(userId, ip, fileSize)

SpecKeys == InitKeys /\ [][NextKeys]_vars

(***************************************************************************)
(* SpecRoll: a guest at one address uploads files and deletes them later,  *)
(* over more than one window.  audit remembers, for every admitted file,   *)
(* the window (firstAttempt of the entry) it was charged in and, once it   *)
(* is released, the window of the entry the release decremented.           *)
(***************************************************************************)
MaxRollCalls == 5

RollKey == "ip:1.2.3.4"

RollSizes == {FILE_SIZE_LIMITS.guest.blob}

\* the window of a release that found no entry
NoWindow == -1

RollCheck(fileSize) ==
    LET out == checkRateLimit(store, now, RollKey, fileSize, FALSE)
        id == Cardinality(DOMAIN audit) + 1
    IN  /\ burst.mode = "roll"
        /\ burst.calls < MaxRollCalls
        /\ store' = out.store
        /\ audit' = IF out.result.success
                    THEN MapSet(audit, id,
                                [window |-> out.store[RollKey].firstAttempt,
                                 size |-> fileSize, released |-> FALSE,
                                 into |-> NoWindow])
                    ELSE audit
        /\ burst' = [burst EXCEPT !.calls = @ + 1]
        /\ last' = [op |-> "check", key |-> RollKey, fileSize |-> fileSize,
                    isAuthenticated |-> FALSE, before |-> store,
                    result |-> out.result]
        /\ UNCHANGED <<now, run, hist, inv, db, uploads, users>>

RollRelease(id) ==
    /\ burst.mode = "roll"
    /\ burst.calls < MaxRollCalls
    /\ id \in DOMAIN audit
    /\ ~audit[id].released
    /\ store' = releaseRateLimit(store, RollKey, audit[id].size)
    /\ audit' = [audit EXCEPT ![id].released = TRUE,
                              ![id].into = IF MapHas(store, RollKey)
                                           THEN store[RollKey].firstAttempt
                                           ELSE NoWindow]
    /\ burst' = [burst EXCEPT !.calls = @ + 1]
    /\ last' = [op |-> "release", key |-> RollKey, fileSize |-> audit[id].size,
                id |-> id, before |-> store]
    /\ UNCHANGED <<now, run, hist, inv, db, uploads, users>>

RollSweep ==
    /\ burst.mode = "roll"
    /\ store' = cleanupExpiredEntries(store, now)
    /\ last' = [op |-> "sweep", before |-> store]
    /\ UNCHANGED <<now, run, hist, inv, burst, db, uploads, audit, users>>

RollTick(d) ==
    /\ burst.mode = "roll"
    /\ AppTick(d)

InitRoll ==
    /\ store = EmptyStore
    /\ now = 0
    /\ last = [op |-> "init"]
    /\ run = [k \in Keys |-> FreshRun]
    /\ hist = <<>>
    /\ inv = EmptyBag
    /\ burst = [mode |-> "roll", calls |-> 0]
    /\ db = NoFiles
    /\ uploads = {}
    /\ audit = NoAudit
    /\ users = {}

NextRoll ==
    \/ \E d \in AppTickSteps : RollTick(d)
    \/ \E fileSize \in RollSizes : RollCheck(fileSize)
    \/ \E id \in 1..MaxRollCalls : RollRelease(id)
    \/ RollSweep

SpecRoll == InitRoll /\ [][NextRoll]_vars

(***************************************************************************)
(* SpecPolicy: the calls of Spec when every key is used with one policy    *)
(* class, as the keys of getRateLimitKey are: burst.isAuthenticated is the *)
(* class, chosen at the start.                                             *)
(***************************************************************************)
PolicyCheck(key, fileSize) ==
    /\ burst.mode = "policy"
    /\ Check(key, fileSize, burst.isAuthenticated)

PolicyStatus(key) ==
    /\ burst.mode = "policy"
    /\ Status(key, burst.isAuthenticated)

PolicyRelease(key, fileSize) ==
    /\ burst.mode = "policy"
    /\ Release(key, fileSize)

PolicySweep ==
    /\ burst.mode = "policy"
    /\ Sweep

PolicyTick(d) ==
    /\ burst.mode = "policy"
    /\ Tick(d)

InitPolicy ==
    /\ store = EmptyStore
    /\ now = 0
    /\ last = [op |-> "init"]
    /\ run = [k \in Keys |-> FreshRun]
    /\ hist = <<>>
    /\ inv = EmptyBag
    /\ burst \in {[mode |-> "policy", isAuthenticated |-> a] : a \in BOOLEAN}
    /\ db = NoFiles
    /\ uploads = {}
    /\ audit = NoAudit
    /\ users = {}

NextPolicy ==
    \/ \E d \in TickSteps : PolicyTick(d)
    \/ \E k \in Keys, s \in FileSizes : PolicyCheck(k, s)
    \/ \E k \in Keys : PolicyStatus(k)
    \/ \E k \in Keys, s \in FileSizes : PolicyRelease(k, s)
    \/ PolicySweep

SpecPolicy == InitPolicy /\ [][NextPolicy]_vars

(***************************************************************************)
(* SpecTwin: two module instances receive the same checkRateLimit,         *)
(* getRateLimitStatus and releaseRateLimit calls at the same instants.     *)
(* store is the Map of the instance whose cleanup timer (line 60) fires at *)
(* arbitrary points; hist is the Map of an instance whose timer never      *)
(* fires.  last records what each instance returned.                       *)
(***************************************************************************)
TwinCheck(key, fileSize, isAuthenticated) ==
    LET out == checkRateLimit(store, now, key, fileSize, isAuthenticated)
        twin == checkRateLimit(hist, now, key, fileSize, isAuthenticated)
    IN  /\ burst.mode = "twin"
        /\ store' = out.store
        /\ hist' = twin.store
        /\ last' = [op |-> "check", key |-> key, fileSize |-> fileSize,
                    isAuthenticated |-> isAuthenticated,
                    swept |-> MapHas(hist, key) /\ ~MapHas(store, key),
                    result |-> out.result, twin |-> twin.result]
        /\ UNCHANGED <<now, run, inv, burst, db, uploads, audit, users>>

TwinStatus(key, isAuthenticated) ==
    /\ burst.mode = "twin"
    /\ last' = [op |-> "status", key |-> key,
                isAuthenticated |-> isAuthenticated,
                swept |-> MapHas(hist, key) /\ ~MapHas(store, key),
                result |-> getRateLimitStatus(store, now, key, isAuthenticated),
                twin |-> getRateLimitStatus(hist, now, key, isAuthenticated)]
    /\ store' = StoreAfterStatus(store, now, key, getConfig(isAuthenticated))
    /\ hist' = StoreAfterStatus(hist, now, key, getConfig(isAuthenticated))
    /\ UNCHANGED <<now, run, inv, burst, db, uploads, audit, users>>

TwinRelease(key, fileSize) ==
    /\ burst.mode = "twin"
    /\ store' = releaseRateLimit(store, key, fileSize)
    /\ hist' = releaseRateLimit(hist, key, fileSize)
    /\ last' = [op |-> "release", key |-> key, fileSize |-> fileSize,
                swept |-> MapHas(hist, key) /\ ~MapHas(store, key)]
    /\ UNCHANGED <<now, run, inv, burst, db, uploads, audit, users>>

\* the timer of the first instance fires
TwinSweep ==
    /\ burst.mode = "twin"
    /\ store' = cleanupExpiredEntries(store, now)
    /\ last' = [op |-> "sweep", removed |-> DOMAIN store \ DOMAIN store']
    /\ UNCHANGED <<now, hist, run, inv, burst, db, uploads, audit, users>>

TwinTick(d) ==
    /\ burst.mode = "twin"
    /\ ClockOK(now + d)
    /\ now' = now + d
    /\ last' = [op |-> "tick", d |-> d]
    /\ UNCHANGED <<store, hist, run, inv, burst, db, uploads, audit, users>>

InitTwin ==
    /\ store = EmptyStore
    /\ now = 0
    /\ last = [op |-> "init"]
    /\ run = [k \in Keys |-> FreshRun]
    /\ hist = EmptyStore
    /\ inv = EmptyBag
    /\ burst = [mode |-> "twin"]
    /\ db = NoFiles
    /\ uploads = {}
    /\ audit = NoAudit
    /\ users = {}

NextTwin ==
    \/ \E d \in TickSteps : TwinTick(d)
    \/ \E k \in Keys, s \in FileSizes, a \in BOOLEAN : TwinCheck(k, s, a)
    \/ \E k \in Keys, a \in BOOLEAN : TwinStatus(k, a)
    \/ \E k \in Keys, s \in FileSizes : TwinRelease(k, s)
    \/ TwinSweep

SpecTwin == InitTwin /\ [][NextTwin]_vars

(***************************************************************************)
(* SpecLive: the module under a clock that advances and a cleanup timer    *)
(* that keeps firing (setInterval, line 60).  The module only ever looks   *)
(* at now - firstAttempt, so the clock is kept relative: now stays 0 and   *)
(* the passing of d ms moves every firstAttempt d ms into the past.  An    *)
(* entry older than the window is stale whatever its age, so ages stop at  *)
(* windowMs + 1 and the clock can advance forever.  burst.gen[k] flips    *)
(* when a call stores a fresh-window entry for k, burst.adm[k] flips at    *)
(* every admitted call on k.                                               *)
(***************************************************************************)
LiveTickSteps == {GUEST_RATE_LIMIT.windowMs}

Flip(b) == 1 - b

\* the entry as it reads once d more ms have passed
Aged(entry, d) ==
    [entry EXCEPT !.firstAttempt =
        Max(@ - d, now - (GUEST_RATE_LIMIT.windowMs + 1))]

LiveTick(d) ==
    /\ burst.mode = "live"
    /\ store' = [k \in DOMAIN store |-> Aged(store[k], d)]
    /\ last' = [op |-> "tick"]
    /\ UNCHANGED <<now, run, hist, inv, burst, db, uploads, audit, users>>

LiveCheck(key, fileSize, isAuthenticated) ==
    LET out == checkRateLimit(store, now, key, fileSize, isAuthenticated)
        fresh == IsStale(store, key, now, getConfig(isAuthenticated))
    IN  /\ burst.mode = "live"
        /\ store' = out.store
        /\ last' = [op |-> "check", success |-> out.result.success]
        /\ burst' = IF out.result.success
                    THEN [burst EXCEPT
                              !.adm[key] = Flip(@),
                              !.gen[key] = IF fresh THEN Flip(@) ELSE @]
                    ELSE burst
        /\ UNCHANGED <<now, run, hist, inv, db, uploads, audit, users>>

LiveStatus(key, isAuthenticated) ==
    /\ burst.mode = "live"
    /\ store' = StoreAfterStatus(store, now, key, getConfig(isAuthenticated))
    /\ last' = [op |-> "status"]
    /\ UNCHANGED <<now, run, hist, inv, burst, db, uploads, audit, users>>

LiveRelease(key, fileSize) ==
    /\ burst.mode = "live"
    /\ store' = releaseRateLimit(store, key, fileSize)
    /\ last' = [op |-> "release"]
    /\ UNCHANGED <<now, run, hist, inv, burst, db, uploads, audit, users>>

LiveSweep ==
    /\ burst.mode = "live"
    /\ store' = cleanupExpiredEntries(store, now)
    /\ last' = [op |-> "sweep"]
    /\ UNCHANGED <<now, run, hist, inv, burst, db, uploads, audit, users>>

InitLive ==
    /\ store = EmptyStore
    /\ now = 0
    /\ last = [op |-> "init"]
    /\ run = [k \in Keys |-> FreshRun]
    /\ hist = <<>>
    /\ inv = EmptyBag
    /\ burst = [mode |-> "live", gen |-> [k \in Keys |-> 0],
                adm |-> [k \in Keys |-> 0]]
    /\ db = NoFiles
    /\ uploads = {}
    /\ audit = NoAudit
    /\ users = {}

NextLive ==
    \/ \E d \in LiveTickSteps : LiveTick(d)
    \/ \E k \in Keys, s \in FileSizes, a \in BOOLEAN : LiveCheck(k, s, a)
    \/ \E k \in Keys, a \in BOOLEAN : LiveStatus(k, a)
    \/ \E k \in Keys, s \in FileSizes : LiveRelease(k, s)
    \/ LiveSweep

\* time passes, and the interval timer of line 60 fires again and again
LiveFairness ==
    /\ WF_vars(\E d \in LiveTickSteps : LiveTick(d))
    /\ WF_vars(LiveSweep)

SpecLive == InitLive /\ [][NextLive]_vars /\ LiveFairness

(***************************************************************************)
(* SpecTrip: one upload request followed by the deletion of its files.     *)
(* Identities first upload as they like (burst.phase = "prior"); one       *)
(* admitted request is then singled out: burst keeps the store it started  *)
(* from, its key, its caller and the ids of its files, and from then on    *)
(* the only requests are the registration of those files and their DELETE  *)
(* /api/files/[fileId] by the same caller from the same address.           *)
(***************************************************************************)
MaxTripFiles == 3

\* The upload middleware of one route; tracked marks the request whose
\* files are followed to their deletion, and guestId is the cookie of its
\* caller.
TripUpload(route, userId, guestId, ip, files, tracked) ==
    LET m == uploadMiddleware(store, now, route, userId, ip, files)
    IN  /\ burst.mode = "trip"
        /\ burst.phase = "prior"
        /\ m.proceeds => Allocated + Len(files) <= MaxTripFiles
        /\ store' = m.store
        /\ uploads' = IF m.proceeds
                      THEN uploads \cup ((Allocated + 1)..(Allocated + Len(files)))
                      ELSE uploads
        /\ audit' = IF m.proceeds THEN Charged(m.key, Allocated, files) ELSE audit
        /\ burst' = IF m.proceeds /\ tracked
                    THEN [mode |-> "trip", phase |-> "batch", rows |-> burst.rows,
                          left |-> burst.left,
                          key |-> m.key, before |-> store,
                          ids |-> (Allocated + 1)..(Allocated + Len(files)),
                          userId |-> userId, guestId |-> guestId, ip |-> ip]
                    ELSE burst
        /\ last' = [op |-> "upload", called |-> m.called, status |-> 0]
        /\ UNCHANGED <<now, run, hist, inv, db, users>>

\* onUploadComplete of a file of the tracked request or an earlier one
TripComplete(id) ==
    /\ burst.mode = "trip"
    /\ UploadComplete(id)

\* POST /api/files as the upload client sends it for a file of the tracked
\* request once its transfer has ended
TripRegister(id) ==
    /\ burst.mode = "trip"
    /\ burst.phase = "batch"
    /\ id \in burst.ids
    /\ id \notin uploads
    /\ RegisterFile(burst.userId, burst.guestId, audit[id].size, id,
                    burst.userId = Null, TRUE)

TripCreate(r) ==
    /\ burst.mode = "trip"
    /\ RegisterCreate(r)

\* DELETE /api/files/[fileId] of a file of the tracked request, sent once
\* by the caller that uploaded it, from the same address
TripDelete(fileId) ==
    /\ burst.mode = "trip"
    /\ burst.phase = "batch"
    /\ MapHas(db, fileId)
    /\ db[fileId].uploadThingId \in burst.ids
    /\ \A r \in BagToSet(inv) : r.fileId # fileId
    /\ DeleteFile(fileId, burst.userId, burst.guestId, burst.ip)

TripRelease(r) ==
    /\ burst.mode = "trip"
    /\ DeleteRelease(r)

TripRow(r) ==
    /\ burst.mode = "trip"
    /\ DeleteRow(r, TRUE)

InitTrip ==
    /\ store = EmptyStore
    /\ now = 0
    /\ last = [op |-> "init", called |-> FALSE]
    /\ run = [k \in Keys |-> FreshRun]
    /\ hist = <<>>
    /\ inv = EmptyBag
    /\ burst = [mode |-> "trip", phase |-> "prior", rows |-> 0,
                left |-> 2 * MaxTripFiles]
    /\ db = NoFiles
    /\ uploads = {}
    /\ audit = NoAudit
    /\ users = {}

NextTrip ==
    \/ \E route \in Routes, userId \in Users \cup {Null}, guestId \in GuestIds,
          ip \in Ips, files \in Batches, tracked \in BOOLEAN :
          TripUpload(route, userId, guestId, ip, files, tracked)
    \/ \E id \in uploads : TripComplete(id)
    \/ \E id \in 1..MaxTripFiles : TripRegister(id)
    \/ \E r \in BagToSet(inv) : TripCreate(r)
    \/ \E fileId \in 1..MaxRows : TripDelete(fileId)
    \/ \E r \in BagToSet(inv) : TripRelease(r)
    \/ \E r \in BagToSet(inv) : TripRow(r)

SpecTrip == InitTrip /\ [][NextTrip]_vars

(***************************************************************************)
(* SpecPair: the calls of Spec, and releaseRateLimit called for the key    *)
(* and size of an admitted checkRateLimit call right after it, with no     *)
(* call and no clock tick in between.  last keeps the store the            *)
(* checkRateLimit call started from.                                       *)
(***************************************************************************)
PairRelease ==
    /\ burst.mode = "pair"
    /\ last.op = "check"
    /\ last.result.success
    /\ store' = releaseRateLimit(store, last.key, last.fileSize)
    /\ last' = [op |-> "pair", key |-> last.key, fileSize |-> last.fileSize,
                isAuthenticated |-> last.isAuthenticated,
                before |-> last.before, admitted |-> store]
    /\ run' = [run EXCEPT ![last.key] = Broken]
    /\ UNCHANGED <<now, hist, inv, burst, db, uploads, audit, users>>

InitPair ==
    /\ store = EmptyStore
    /\ now = 0
    /\ last = [op |-> "init"]
    /\ run = [k \in Keys |-> FreshRun]
    /\ hist = <<>>
    /\ inv = EmptyBag
    /\ burst = [mode |-> "pair"]
    /\ db = NoFiles
    /\ uploads = {}
    /\ audit = NoAudit
    /\ users = {}

NextPair ==
    \/ \E d \in TickSteps : Tick(d)
    \/ \E k \in Keys, s \in FileSizes, a \in BOOLEAN : Check(k, s, a)
    \/ \E k \in Keys, s \in FileSizes : Release(k, s)
    \/ Sweep
    \/ PairRelease

SpecPair == InitPair /\ [][NextPair]_vars

(***************************************************************************)
(* SpecGate: the three upload middlewares under requests that break the    *)
(* sign-in, file-count and file-size rules as well as requests that keep   *)
(* them.  last records the route and the caller, whether the request      *)
(* breaks a rule, the store it found, whether checkRateLimit was called    *)
(* and with what result, and whether the upload went ahead.                *)
(***************************************************************************)
MaxGateFiles == 3

GateIp == "1.2.3.4"

\* one file, one more file than guests may send, one more than signed-in
\* users may send
GateLens == {1, FILE_COUNT_LIMITS.guest + 1, FILE_COUNT_LIMITS.auth + 1}

GateSizes == AppSizes \cup {FILE_SIZE_LIMITS.auth.blob + 1}

\* MIME types: one the limits do not list, and one whose first segment
\* names a member every object inherits
GateTypes == {<<"application", "zip">>, <<"constructor", "x">>}

\* one file of each size and files of 16 MB, of a listed type; one file
\* within the guest limit followed by one above it; and one file just
\* above the limit of signed-in users of each of the other types
GateBatches ==
    {<<UploadedFile(s, PlainType)>> : s \in GateSizes}
        \cup {[i \in 1..n |-> UploadedFile(FILE_SIZE_LIMITS.guest.blob, PlainType)] :
                  n \in GateLens}
        \cup {<<UploadedFile(FILE_SIZE_LIMITS.guest.blob, PlainType),
                UploadedFile(FILE_SIZE_LIMITS.auth.blob, PlainType)>>}
        \cup {<<UploadedFile(FILE_SIZE_LIMITS.auth.blob + 1, t)>> : t \in GateTypes}

\* whether the route treats the caller as a guest
GateIsGuest(route, userId) ==
    route = "guestUploader" \/ (route = "fileUploader" /\ userId = Null)

GateCountLimit(route, userId) ==
    IF GateIsGuest(route, userId)
    THEN FILE_COUNT_LIMITS.guest ELSE FILE_COUNT_LIMITS.auth

\* the per-file limit of the caller, the same for every type the limits
\* list
GateSizeLimit(route, userId) ==
    IF GateIsGuest(route, userId)
    THEN FILE_SIZE_LIMITS.guest.blob ELSE FILE_SIZE_LIMITS.auth.blob

\* the file is compared with the limit: the first segment of its type is
\* not the name of an inherited member
GateMeasured(file) == Head(file.type) \notin ObjectPrototypeNames

\* the request lacks the sign-in its route asks for, has too many files,
\* or has a file that is compared with the per-file limit and is above it
GateInvalid(route, userId, files) ==
    \/ route = "imageUploader" /\ userId = Null
    \/ Len(files) > GateCountLimit(route, userId)
    \/ \E i \in 1..Len(files) :
          GateMeasured(files[i]) /\ files[i].size > GateSizeLimit(route, userId)

\* the request has a file above the per-file limit that is not compared
\* with it
GateUnmeasured(route, userId, files) ==
    \E i \in 1..Len(files) :
        ~GateMeasured(files[i]) /\ files[i].size > GateSizeLimit(route, userId)

GateUpload(route, userId, ip, files) ==
    LET m == uploadMiddleware(store, now, route, userId, ip, files)
    IN  /\ burst.mode = "gate"
        /\ m.proceeds => Allocated + Len(files) <= MaxGateFiles
        /\ store' = m.store
        /\ uploads' = IF m.proceeds
                      THEN uploads \cup ((Allocated + 1)..(Allocated + Len(files)))
                      ELSE uploads
        /\ audit' = IF m.proceeds THEN Charged(m.key, Allocated, files) ELSE audit
        /\ last' = [op |-> "upload", route |-> route, userId |-> userId,
                    invalid |-> GateInvalid(route, userId, files),
                    unmeasured |-> GateUnmeasured(route, userId, files),
                    before |-> store, refusal |-> m.refusal,
                    called |-> m.called, success |-> m.success,
                    proceeds |-> m.proceeds]
        /\ UNCHANGED <<now, run, hist, inv, burst, db, users>>

GateSweep ==
    /\ burst.mode = "gate"
    /\ store' = cleanupExpiredEntries(store, now)
    /\ last' = [op |-> "sweep"]
    /\ UNCHANGED <<now, run, hist, inv, burst, db, uploads, audit, users>>

GateTick(d) ==
    /\ burst.mode = "gate"
    /\ ClockOK(now + d)
    /\ now' = now + d
    /\ last' = [op |-> "tick"]
    /\ UNCHANGED <<store, run, hist, inv, burst, db, uploads, audit, users>>

InitGate ==
    /\ store = EmptyStore
    /\ now = 0
    /\ last = [op |-> "init"]
    /\ run = [k \in Keys |-> FreshRun]
    /\ hist = <<>>
    /\ inv = EmptyBag
    /\ burst = [mode |-> "gate"]
    /\ db = NoFiles
    /\ uploads = {}
    /\ audit = NoAudit
    /\ users = {}

NextGate ==
    \/ \E d \in AppTickSteps : GateTick(d)
    \/ GateSweep
    \/ \E route \in Routes, userId \in Users \cup {Null}, files \in GateBatches :
          GateUpload(route, userId, GateIp, files)

SpecGate == InitGate /\ [][NextGate]_vars

(***************************************************************************)
(* SpecDeny: uploads, registrations and DELETE /api/files/[fileId]         *)
(* requests sent by any caller: the owner, another signed-in user, a guest *)
(* with or without the guestId cookie, for ids that exist and ids that do  *)
(* not.  The database delete of an authorised request succeeds.            *)
(***************************************************************************)
MaxDenyRequests == 4

\* requests of one file
DenyBatches == {<<f>> : f \in AppFiles}

DenyUpload(route, userId, ip, files) ==
    /\ burst.mode = "deny"
    /\ UploadRefusal(route, userId, files) = "none"
    /\ UploadRequest(route, userId, ip, files)

DenyRegister(clerkUserId, guestId, fileSize, uploadThingId, isGuest) ==
    /\ burst.mode = "deny"
    /\ RegisterFile(clerkUserId, guestId, fileSize, uploadThingId, isGuest, TRUE)

DenyCreate(r) ==
    /\ burst.mode = "deny"
    /\ RegisterCreate(r)

DenyDelete(fileId, clerkUserId, guestId, ip) ==
    /\ burst.mode = "deny"
    /\ DeleteFile(fileId, clerkUserId, guestId, ip)

DenyRelease(r) ==
    /\ burst.mode = "deny"
    /\ DeleteRelease(r)

DenyRow(r) ==
    /\ burst.mode = "deny"
    /\ DeleteRow(r, TRUE)

InitDeny ==
    /\ store = EmptyStore
    /\ now = 0
    /\ last = [op |-> "init", called |-> FALSE]
    /\ run = [k \in Keys |-> FreshRun]
    /\ hist = <<>>
    /\ inv = EmptyBag
    /\ burst = [mode |-> "deny", rows |-> 0, left |-> MaxDenyRequests]
    /\ db = NoFiles
    /\ uploads = {}
    /\ audit = NoAudit
    /\ users = {}

NextDeny ==
    \/ \E route \in Routes, userId \in Users \cup {Null}, ip \in Ips,
          files \in DenyBatches : DenyUpload(route, userId, ip, files)
    \/ \E clerkUserId \in Users \cup {Null}, guestId \in GuestIds \cup {Null},
          fileSize \in AppSizes, uploadThingId \in DOMAIN audit, isGuest \in BOOLEAN :
          DenyRegister(clerkUserId, guestId, fileSize, uploadThingId, isGuest)
    \/ \E r \in BagToSet(inv) : DenyCreate(r)
    \/ \E fileId \in 1..MaxRows, clerkUserId \in Users \cup {Null},
          guestId \in GuestIds \cup {Null}, ip \in Ips :
          DenyDelete(fileId, clerkUserId, guestId, ip)
    \/ \E r \in BagToSet(inv) : DenyRelease(r)
    \/ \E r \in BagToSet(inv) : DenyRow(r)

SpecDeny == InitDeny /\ [][NextDeny]_vars

(***************************************************************************)
(* SpecQuota: the two implementations of GET /api/rate-limit next to the   *)
(* uploads they report on.  One returns what getRateLimitStatus reads from *)
(* the Map; the other counts the caller's records in the file table.  last *)
(* keeps the reported remaining and remainingBytes with the key and policy *)
(* the handler derived.                                                    *)
(***************************************************************************)
QuotaLimits(isAuthenticated) ==
    IF isAuthenticated
    THEN [maxUploads |-> 100, maxBytes |-> 512 * 1024 * 1024]
    ELSE [maxUploads |-> 10, maxBytes |-> 32 * 1024 * 1024]

RECURSIVE DbBytes(_)
DbBytes(ids) ==
    IF ids = {} THEN 0
    ELSE LET id == CHOOSE x \in ids : TRUE
         IN  db[id].size + DbBytes(ids \ {id})

\* the records prisma.file.findMany returns for the caller
QuotaFiles(userId, guestId) ==
    IF userId # Null THEN {id \in DOMAIN db : db[id].userId = userId}
    ELSE IF guestId # Null
         THEN {id \in DOMAIN db : db[id].guestId = guestId /\ db[id].isGuest}
    ELSE {}

\* GET /api/rate-limit reading the Map
QuotaGetMemory(userId, ip) ==
    LET isAuthenticated == userId # Null
        key == getRateLimitKey(userId, ip)
        status == getRateLimitStatus(store, now, key, isAuthenticated)
    IN  /\ burst.mode = "quota"
        /\ store' = StoreAfterStatus(store, now, key, getConfig(isAuthenticated))
        /\ last' = [op |-> "rate_limit", variant |-> "memory", key |-> key,
                    isAuthenticated |-> isAuthenticated, called |-> TRUE,
                    remaining |-> status.remaining,
                    remainingBytes |-> status.remainingBytes]
        /\ UNCHANGED <<now, run, hist, inv, burst, db, uploads, audit, users>>

\* GET /api/rate-limit counting the file table
QuotaGetRegistry(userId, guestId, ip) ==
    LET isAuthenticated == userId # Null
        key == getRateLimitKey(userId, ip)
        limits == QuotaLimits(isAuthenticated)
        files == QuotaFiles(userId, guestId)
        dbUsedCount == Cardinality(files)
        dbUsedBytes == DbBytes(files)
    IN  /\ burst.mode = "quota"
        /\ store' = StoreAfterStatus(store, now, key, getConfig(isAuthenticated))
        /\ last' = [op |-> "rate_limit", variant |-> "registry", key |-> key,
                    isAuthenticated |-> isAuthenticated, called |-> TRUE,
                    remaining |-> Max(0, limits.maxUploads - dbUsedCount),
                    remainingBytes |-> Max(0, limits.maxBytes - dbUsedBytes)]
        /\ UNCHANGED <<now, run, hist, inv, burst, db, uploads, audit, users>>

\* an upload through the route UploadZone picks for the caller
QuotaUpload(userId, ip, files) ==
    /\ burst.mode = "quota"
    /\ UploadRefusal(IF userId # Null THEN "fileUploader" ELSE "guestUploader",
                     userId, files) = "none"
    /\ UploadRequest(IF userId # Null THEN "fileUploader" ELSE "guestUploader",
                     userId, ip, files)

\* POST /api/files as the upload client sends it
QuotaRegister(clerkUserId, guestId, uploadThingId) ==
    /\ burst.mode = "quota"
    /\ RegisterFile(clerkUserId, guestId, audit[uploadThingId].size,
                    uploadThingId, clerkUserId = Null, TRUE)

QuotaCreate(r) ==
    /\ burst.mode = "quota"
    /\ RegisterCreate(r)

QuotaTick(d) ==
    /\ burst.mode = "quota"
    /\ AppTick(d)

QuotaSweep ==
    /\ burst.mode = "quota"
    /\ AppSweep

InitQuota ==
    /\ store = EmptyStore
    /\ now = 0
    /\ last = [op |-> "init", called |-> FALSE]
    /\ run = [k \in Keys |-> FreshRun]
    /\ hist = <<>>
    /\ inv = EmptyBag
    /\ burst = [mode |-> "quota", rows |-> 0, left |-> MaxRequests]
    /\ db = NoFiles
    /\ uploads = {}
    /\ audit = NoAudit
    /\ users = {}

NextQuota ==
    \/ \E d \in AppTickSteps : QuotaTick(d)
    \/ QuotaSweep
    \/ \E userId \in Users \cup {Null}, ip \in Ips, files \in Batches :
          QuotaUpload(userId, ip, files)
    \/ \E clerkUserId \in Users \cup {Null}, guestId \in GuestIds,
          uploadThingId \in DOMAIN audit :
          QuotaRegister(clerkUserId, guestId, uploadThingId)
    \/ \E r \in BagToSet(inv) : QuotaCreate(r)
    \/ \E userId \in Users \cup {Null}, ip \in Ips : QuotaGetMemory(userId, ip)
    \/ \E userId \in Users \cup {Null}, guestId \in GuestIds \cup {Null}, ip \in Ips :
          QuotaGetRegistry(userId, guestId, ip)

SpecQuota == InitQuota /\ [][NextQuota]_vars

(***************************************************************************)
(* SpecSpoof: the calls of SpecKeys when anonymous callers choose the      *)
(* origin address they present (x-forwarded-for is taken as sent): a       *)
(* plain address, a signed-in user's id, and the key of that user.         *)
(***************************************************************************)
SpoofIps == {"1.2.3.4", "u1", "user:u1"}

SpoofSizes == {FILE_SIZE_LIMITS.guest.blob}

\* the address signed-in requests come from
HomeIp == "1.2.3.4"

\* who calls: a signed-in user from the home address, or nobody signed in
\* from an address of the caller's choice
SpoofCallers ==
    {[userId |-> u, ip |-> HomeIp] : u \in Users}
        \cup {[userId |-> Null, ip |-> ip] : ip \in SpoofIps}

SpoofCheck(c, fileSize) ==
    /\ burst.mode = "spoof"
    /\ KeyCheck(c.userId, c.ip, fileSize)

SpoofStatus(c) ==
    /\ burst.mode = "spoof"
    /\ KeyStatus(c.userId, c.ip)

SpoofRelease(c, fileSize) ==
    /\ burst.mode = "spoof"
    /\ KeyRelease(c.userId, c.ip, fileSize)

InitSpoof ==
    /\ store = EmptyStore
    /\ now = 0
    /\ last = [op |-> "init", called |-> FALSE]
    /\ run = [k \in Keys |-> FreshRun]
    /\ hist = <<>>
    /\ inv = EmptyBag
    /\ burst = [mode |-> "spoof"]
    /\ db = NoFiles
    /\ uploads = {}
    /\ audit = NoAudit
    /\ users = {}

NextSpoof ==
    \/ \E c \in SpoofCallers, fileSize \in SpoofSizes : SpoofCheck(c, fileSize)
    \/ \E c \in SpoofCallers : SpoofStatus(c)
    \/ \E c \in SpoofCallers, fileSize \in SpoofSizes : SpoofRelease(c, fileSize)

SpecSpoof == InitSpoof /\ [][NextSpoof]_vars

(***************************************************************************)
(* Properties of Spec.  last.before is the store a call started from and   *)
(* now is the time it ran at.                                              *)
(***************************************************************************)
LastIsCheck == last.op = "check"

LastConfig == getConfig(last.isAuthenticated)

\* the last call found no entry, or one whose window had elapsed
StaleBefore ==
    \/ last.key \notin DOMAIN last.before
    \/ now - last.before[last.key].firstAttempt > LastConfig.windowMs

\* the usage the last call had to be evaluated against
UsageBefore ==
    IF StaleBefore
    THEN [count |-> 0, firstAttempt |-> now, totalBytes |-> 0]
    ELSE last.before[last.key]

Rejected(reason) ==
    /\ ~last.result.success
    /\ last.result.reason = reason

\* C3: after N = maxRequests checkRateLimit calls in a row on a key that had
\* no entry, all under one policy and inside one window, with no release in
\* between and with sizes that fit maxBytes, every call was admitted; the
\* next call is rejected with rate_limit_requests whatever its size.
C3_RequestCeiling ==
    [][last'.op = "check" =>
         LET k == last'.key
             a == last'.isAuthenticated
             config == getConfig(a)
             r == RunBefore(run[k], store, now, k, a)
         IN  /\ (/\ r.n >= 0
                 /\ r.n < config.maxRequests
                 /\ r.bytes + last'.fileSize <= config.maxBytes)
                    => last'.result.success
             /\ r.n = config.maxRequests
                    => /\ ~last'.result.success
                       /\ last'.result.reason = "rate_limit_requests"]_vars

C3_Witness ==
    /\ LastIsCheck
    /\ run[last.key].n = LastConfig.maxRequests
    /\ last.fileSize = 0
    /\ Rejected("rate_limit_requests")

\* C4: below the request ceiling a call is rejected with rate_limit_bytes
\* exactly when totalBytes + fileSize > maxBytes (a request that fills
\* maxBytes exactly is admitted), and the rejection leaves the entry as it
\* was.
C4_ByteCeiling ==
    (LastIsCheck /\ UsageBefore.count < LastConfig.maxRequests) =>
        /\ Rejected("rate_limit_bytes")
             <=> (UsageBefore.totalBytes + last.fileSize > LastConfig.maxBytes)
        /\ UsageBefore.totalBytes + last.fileSize <= LastConfig.maxBytes
             => last.result.success
        /\ ~last.result.success =>
             /\ (last.key \in DOMAIN store) = (last.key \in DOMAIN last.before)
             /\ last.key \in DOMAIN store =>
                   store[last.key].totalBytes = last.before[last.key].totalBytes

C4_Witness ==
    /\ LastIsCheck
    /\ Rejected("rate_limit_bytes")
    /\ ~StaleBefore
    /\ UsageBefore.totalBytes > 0
    /\ last.fileSize <= LastConfig.maxBytes
    /\ store[last.key].totalBytes = UsageBefore.totalBytes

\* C5: a rejected checkRateLimit call leaves the whole store as it was: no
\* entry is created, an expired entry is not replaced, no field changes.
\* (getRateLimitStatus reads only the store and the clock.)
C5_NoChargeOnRejection ==
    (LastIsCheck /\ ~last.result.success) => store = last.before

C5_Witness ==
    /\ LastIsCheck
    /\ ~last.result.success
    /\ last.key \in DOMAIN store
    /\ now - store[last.key].firstAttempt > LastConfig.windowMs

\* C6: a call that is over both ceilings is reported as rate_limit_requests.
C6_TieBreak ==
    (/\ LastIsCheck
     /\ UsageBefore.count >= LastConfig.maxRequests
     /\ UsageBefore.totalBytes + last.fileSize > LastConfig.maxBytes)
        => Rejected("rate_limit_requests")

C6_Witness ==
    /\ LastIsCheck
    /\ UsageBefore.count >= LastConfig.maxRequests
    /\ UsageBefore.totalBytes + last.fileSize > LastConfig.maxBytes
    /\ last.fileSize <= LastConfig.maxBytes
    /\ Rejected("rate_limit_requests")

\* C7: an admitted call adds 1 to count and fileSize to totalBytes, keeps the
\* window start of an unexpired entry, stores the entry, and returns the
\* remaining quota after the charge and the end of the window.
C7_AdmissionEffect ==
    (LastIsCheck /\ last.result.success) =>
        /\ last.key \in DOMAIN store
        /\ store[last.key].count = UsageBefore.count + 1
        /\ store[last.key].totalBytes = UsageBefore.totalBytes + last.fileSize
        /\ store[last.key].firstAttempt = UsageBefore.firstAttempt
        /\ last.result.remaining
             = LastConfig.maxRequests - store[last.key].count
        /\ last.result.remainingBytes
             = LastConfig.maxBytes - store[last.key].totalBytes
        /\ last.result.totalBytes = store[last.key].totalBytes
        /\ last.result.resetAt
             = store[last.key].firstAttempt + LastConfig.windowMs

C7_Witness ==
    /\ LastIsCheck
    /\ last.result.success
    /\ ~StaleBefore
    /\ UsageBefore.count > 0
    /\ UsageBefore.totalBytes > 0
    /\ last.fileSize > 0
    /\ now > store[last.key].firstAttempt

\* C8: a call works on a fresh entry (count 0, totalBytes 0, window start
\* now) exactly when the key has no entry or now - firstAttempt > windowMs,
\* and on the stored entry otherwise; nothing of an elapsed window is
\* carried over, even if that window was at its ceiling.
C8_WindowReset ==
    LastIsCheck =>
        LET e == IF \/ last.key \notin DOMAIN last.before
                    \/ now - last.before[last.key].firstAttempt
                         > LastConfig.windowMs
                 THEN [count |-> 0, firstAttempt |-> now, totalBytes |-> 0]
                 ELSE last.before[last.key]
            r == last.result
        IN  /\ r.resetAt = e.firstAttempt + LastConfig.windowMs
            /\ r.totalBytes
                 = e.totalBytes + (IF r.success THEN last.fileSize ELSE 0)
            /\ r.success =>
                 /\ r.remaining = LastConfig.maxRequests - e.count - 1
                 /\ store[last.key].count = e.count + 1
                 /\ store[last.key].firstAttempt = e.firstAttempt
            /\ ~r.success =>
                 IF r.reason = "rate_limit_requests"
                 THEN e.count >= LastConfig.maxRequests
                 ELSE r.remaining = LastConfig.maxRequests - e.count

C8_Witness ==
    /\ LastIsCheck
    /\ last.key \in DOMAIN last.before
    /\ last.before[last.key].count >= LastConfig.maxRequests
    /\ last.before[last.key].totalBytes >= LastConfig.maxBytes
    /\ now - last.before[last.key].firstAttempt > LastConfig.windowMs
    /\ last.result.success
    /\ store[last.key] = [count |-> 1, firstAttempt |-> now,
                          totalBytes |-> last.fileSize]

\* C10: count and totalBytes of every stored entry are never negative,
\* however often and with however many bytes releaseRateLimit is called.
C10_ReleaseFloor ==
    \A k \in DOMAIN store :
        /\ store[k].count >= 0
        /\ store[k].totalBytes >= 0

C10_Witness ==
    /\ last.op = "release"
    /\ last.key \in DOMAIN last.before
    /\ last.before[last.key].count = 0
    /\ last.before[last.key].totalBytes < last.fileSize
    /\ store[last.key].count = 0
    /\ store[last.key].totalBytes = 0

\* C9: under the policy {60 s, 2 requests, 1000 bytes} three calls of 400
\* bytes on a key with no entry, made within 10 seconds, return: admitted
\* with remaining 1 and remainingBytes 600; admitted with remaining 0 and
\* remainingBytes 200; rejected with rate_limit_requests.
C9_ExampleScenario ==
    /\ Len(hist) >= 1 =>
          /\ hist[1].success
          /\ hist[1].remaining = 1
          /\ hist[1].remainingBytes = 600
    /\ Len(hist) >= 2 =>
          /\ hist[2].success
          /\ hist[2].remaining = 0
          /\ hist[2].remainingBytes = 200
    /\ Len(hist) >= 3 =>
          /\ ~hist[3].success
          /\ hist[3].reason = "rate_limit_requests"

C9_Witness ==
    /\ burst.mode = "example"
    /\ Len(hist) = 3
    /\ now = ExampleSpanMs
    /\ ~hist[3].success
    /\ store[ExampleKey].count = 2
    /\ store[ExampleKey].totalBytes = 800

\* C11: on a key that has an entry, releaseRateLimit(key, b) sets count to
\* max(0, count - 1) and totalBytes to max(0, totalBytes - b) and keeps
\* firstAttempt, whether or not the window of the entry has elapsed.
C11_ReleaseEffect ==
    (last.op = "release" /\ last.key \in DOMAIN last.before) =>
        LET e == last.before[last.key]
        IN  /\ DOMAIN store = DOMAIN last.before
            /\ store[last.key].count
                 = (IF e.count >= 1 THEN e.count - 1 ELSE 0)
            /\ store[last.key].totalBytes
                 = (IF e.totalBytes >= last.fileSize
                    THEN e.totalBytes - last.fileSize ELSE 0)
            /\ store[last.key].firstAttempt = e.firstAttempt

C11_Witness ==
    /\ last.op = "release"
    /\ last.key \in DOMAIN last.before
    /\ now - last.before[last.key].firstAttempt > GUEST_RATE_LIMIT.windowMs
    /\ last.before[last.key].count >= 2
    /\ last.fileSize > 0
    /\ store[last.key].count = last.before[last.key].count - 1
    /\ store[last.key].totalBytes
         = last.before[last.key].totalBytes - last.fileSize

\* C12: releaseRateLimit on a key without an entry creates no entry and
\* leaves the store as it was.
C12_NoOpRelease ==
    (last.op = "release" /\ last.key \notin DOMAIN last.before) =>
        /\ last.key \notin DOMAIN store
        /\ store = last.before

C12_Witness ==
    /\ last.op = "release"
    /\ last.key \notin DOMAIN last.before
    /\ last.key \notin DOMAIN store
    /\ last.fileSize > 0
    /\ now > GUEST_RATE_LIMIT.windowMs

\* C13: getRateLimitStatus leaves the store as it was, whether the entry of
\* the key is absent, current or expired.
C13_StatusReadOnly ==
    last.op = "status" => store = last.before

C13_Witness ==
    /\ last.op = "status"
    /\ last.key \in DOMAIN store
    /\ store[last.key].count > 0
    /\ now - store[last.key].firstAttempt > LastConfig.windowMs

\* C14: getRateLimitStatus on a key without an entry, or with an entry whose
\* window has elapsed, reports remaining = maxRequests, remainingBytes =
\* maxBytes, totalBytes = 0 and percentageUsed = 0.
C14_StatusFullCapacity ==
    (last.op = "status" /\ StaleBefore) =>
        /\ last.result.remaining = LastConfig.maxRequests
        /\ last.result.remainingBytes = LastConfig.maxBytes
        /\ last.result.totalBytes = 0
        /\ last.result.percentageUsed.num = 0

C14_Witness ==
    /\ last.op = "status"
    /\ last.key \in DOMAIN last.before
    /\ last.before[last.key].count > 0
    /\ last.before[last.key].totalBytes > 0
    /\ now - last.before[last.key].firstAttempt > LastConfig.windowMs
    /\ last.result.totalBytes = 0

\* C15: a sweep at time now removes exactly the entries with
\* now - firstAttempt greater than the longest window of the two policies and
\* changes no other entry; an entry it removes is outside the window of
\* either policy.
LongestWindow ==
    IF GUEST_RATE_LIMIT.windowMs >= AUTH_RATE_LIMIT.windowMs
    THEN GUEST_RATE_LIMIT.windowMs
    ELSE AUTH_RATE_LIMIT.windowMs

C15_SweeperThreshold ==
    last.op = "sweep" =>
        /\ DOMAIN store
             = {k \in DOMAIN last.before :
                   now - last.before[k].firstAttempt <= LongestWindow}
        /\ \A k \in DOMAIN store : store[k] = last.before[k]
        /\ \A k \in DOMAIN last.before \ DOMAIN store :
              \A a \in BOOLEAN :
                 now - last.before[k].firstAttempt > getConfig(a).windowMs

C15_Witness ==
    /\ last.op = "sweep"
    /\ \E k \in DOMAIN last.before :
          /\ k \notin DOMAIN store
          /\ last.before[k].count > 0
          /\ now - last.before[k].firstAttempt = LongestWindow + 1

\* C16: an entry whose window has elapsed and which is still in the store is
\* treated as if it had been removed: checkRateLimit returns what it returns
\* for the key without an entry (zero usage) and stores the same entry when
\* it admits, and getRateLimitStatus returns full capacity.
C16_StaleAsRemoved ==
    ((last.op = "check" \/ last.op = "status")
       /\ last.key \in DOMAIN last.before
       /\ now - last.before[last.key].firstAttempt > LastConfig.windowMs) =>
        LET removed == [k \in DOMAIN last.before \ {last.key} |-> last.before[k]]
        IN  IF last.op = "check"
            THEN LET out == checkRateLimit(removed, now, last.key,
                                           last.fileSize, last.isAuthenticated)
                 IN  /\ last.result = out.result
                     /\ last.result.totalBytes
                          = (IF last.result.success THEN last.fileSize ELSE 0)
                     /\ last.result.success => store = out.store
            ELSE /\ last.result
                      = getRateLimitStatus(removed, now, last.key,
                                           last.isAuthenticated)
                 /\ last.result.remaining = LastConfig.maxRequests

C16_Witness ==
    /\ last.op = "check"
    /\ last.key \in DOMAIN last.before
    /\ now - last.before[last.key].firstAttempt > LastConfig.windowMs
    /\ last.before[last.key].count > 0
    /\ last.before[last.key].totalBytes > 0
    /\ last.fileSize > 0
    /\ last.result.success
    /\ last.result.remaining = LastConfig.maxRequests - 1

\* the fields of every decision, and the two more of a rejection
DecisionFields ==
    {"success", "remaining", "resetAt", "limit", "remainingBytes", "totalBytes"}

RejectionFields == DecisionFields \cup {"retryAfter", "reason"}

\* C22: whatever the key, the size, the policy and the store, checkRateLimit
\* returns one of three decisions: admitted, rejected with
\* rate_limit_requests, or rejected with rate_limit_bytes; a rejection
\* carries its reason and a retryAfter, a number of seconds from 0 to the
\* length of the window.
C22_Totality ==
    LastIsCheck =>
        /\ last.result.success \in BOOLEAN
        /\ last.result.success => DOMAIN last.result = DecisionFields
        /\ ~last.result.success =>
              /\ DOMAIN last.result = RejectionFields
              /\ last.result.reason \in {"rate_limit_requests", "rate_limit_bytes"}
              /\ last.result.retryAfter \in 0..(LastConfig.windowMs \div 1000)

C22_Witness ==
    /\ LastIsCheck
    /\ last.isAuthenticated
    /\ ~StaleBefore
    /\ now > last.before[last.key].firstAttempt
    /\ Rejected("rate_limit_bytes")
    /\ last.result.retryAfter > 0

\* milliseconds past t + retryAfter seconds at which the request is retried
RetryDelays == {0, 1}

\* C25: when checkRateLimit rejects a request of a size that fits maxBytes
\* and reports retryAfter = r seconds, the same request on the same store
\* (nothing else touched the key) is admitted at t + r seconds and at any
\* later time, the instant resetAt included.
C25_RetryAfterSufficient ==
    (/\ LastIsCheck
     /\ ~last.result.success
     /\ last.fileSize <= LastConfig.maxBytes) =>
        \A d \in RetryDelays :
            checkRateLimit(store, now + 1000 * last.result.retryAfter + d,
                           last.key, last.fileSize,
                           last.isAuthenticated).result.success

\* C26: a rejection, for either reason, reports remaining =
\* max(0, maxRequests - count) and remainingBytes =
\* max(0, maxBytes - totalBytes) of the current window, the values
\* getRateLimitStatus returns for the key at the same instant.
C26_TrueRemaining ==
    (LastIsCheck /\ ~last.result.success) =>
        LET status == getRateLimitStatus(store, now, last.key,
                                         last.isAuthenticated)
        IN  /\ last.result.remaining
                  = Max(0, LastConfig.maxRequests - UsageBefore.count)
            /\ last.result.remainingBytes
                  = Max(0, LastConfig.maxBytes - UsageBefore.totalBytes)
            /\ last.result.remaining = status.remaining
            /\ last.result.remainingBytes = status.remainingBytes

(***************************************************************************)
(* Properties of SpecApp.                                                  *)
(***************************************************************************)

\* a DELETE /api/files/[fileId] request for the file is between its first
\* step and its answer
DeleteUnderWay(id) ==
    \E r \in BagToSet(inv) : r.op = "delete" /\ r.row.uploadThingId = id

\* C17: every file record that was deleted, by DELETE /api/files/[fileId],
\* by the dashboard DELETE or by account deletion, had exactly one
\* releaseRateLimit call, and that call carried the size of the file.
C17_ExactlyOnceRelease ==
    \A id \in DOMAIN audit :
        audit[id].deleted =>
            /\ Len(audit[id].releases) = 1
            /\ audit[id].releases[1].size = audit[id].size

\* C18: every releaseRateLimit call made for a file names the key the
\* upload of that file was charged to by checkRateLimit, whoever deletes it:
\* a signed-in user from any address, or a guest with the guestId cookie
\* from any address.
C18_ReleaseHitsChargedKey ==
    \A id \in DOMAIN audit :
        \A i \in 1..Len(audit[id].releases) :
            audit[id].releases[i].key = audit[id].key

\* C30: whatever DELETE /api/files/[fileId] requests target a file,
\* repeated or failing at the database delete after the release step,
\* releaseRateLimit is applied for the file at most once, and only if the
\* file record is actually deleted.
C30_AtMostOneRelease ==
    \A id \in DOMAIN audit :
        /\ Len(audit[id].releases) <= 1
        /\ (Len(audit[id].releases) > 0 /\ ~DeleteUnderWay(id))
              => audit[id].deleted

(***************************************************************************)
(* Properties of SpecKeys.                                                 *)
(***************************************************************************)

\* C19: two derivations for the same non-empty userId give the same key
\* whatever their addresses; two derivations without userId give the same
\* key exactly when their addresses are the same.
C19_KeyDerivation ==
    \A i, j \in 1..Len(hist) :
        /\ (hist[i].userId # Null /\ hist[i].userId = hist[j].userId)
              => hist[i].key = hist[j].key
        /\ (hist[i].userId = Null /\ hist[j].userId = Null)
              => (hist[i].key = hist[j].key <=> hist[i].ip = hist[j].ip)

C19_Witness ==
    /\ \E i, j \in 1..Len(hist) :
          /\ hist[i].userId # Null
          /\ hist[i].userId = hist[j].userId
          /\ hist[i].ip # hist[j].ip
    /\ \E i, j \in 1..Len(hist) :
          /\ hist[i].userId = Null
          /\ hist[j].userId = Null
          /\ hist[i].ip # hist[j].ip

\* C20: a checkRateLimit, getRateLimitStatus or releaseRateLimit call on
\* key k leaves every other key as it was: not created, not deleted, and
\* with the same count, totalBytes and firstAttempt.
C20_KeyIsolation ==
    last.called =>
        \A k \in ((DOMAIN store) \cup (DOMAIN last.before)) \ {last.key} :
            /\ k \in DOMAIN store
            /\ k \in DOMAIN last.before
            /\ store[k] = last.before[k]

C20_Witness ==
    /\ last.called
    /\ last.op = "release"
    /\ last.key \in DOMAIN last.before
    /\ store[last.key] # last.before[last.key]
    /\ \E k \in DOMAIN store : k # last.key /\ store[k].count > 0
    /\ \E i \in 1..Len(hist) : hist[i].key = last.key /\ hist[i].userId = Null

(***************************************************************************)
(* Properties of SpecRoll.                                                 *)
(***************************************************************************)
\* the files charged in window w that are not released
Live(w) == {id \in DOMAIN audit : audit[id].window = w /\ ~audit[id].released}

\* the files charged in another window whose release decremented window w
Foreign(w) ==
    {id \in DOMAIN audit :
        audit[id].released /\ audit[id].into = w /\ audit[id].window # w}

RECURSIVE AuditBytes(_)
AuditBytes(ids) ==
    IF ids = {} THEN 0
    ELSE LET id == CHOOSE x \in ids : TRUE
         IN  audit[id].size + AuditBytes(ids \ {id})

\* C23: a release for a file charged in a window that has rolled over
\* decrements the count and the bytes of the newer entry now stored at the
\* key, as it would those of the entry the file was charged to; and the
\* files a window holds unreleased exceed what its entry accounts for by no
\* more than such releases from other windows.
C23_CrossWindowRelease ==
    burst.mode = "roll" =>
        /\ (/\ last.op = "release"
            /\ MapHas(last.before, last.key)
            /\ audit[last.id].window # last.before[last.key].firstAttempt) =>
              store[last.key] =
                  [count |-> Max(0, last.before[last.key].count - 1),
                   firstAttempt |-> last.before[last.key].firstAttempt,
                   totalBytes |-> Max(0, last.before[last.key].totalBytes
                                            - last.fileSize)]
        /\ MapHas(store, RollKey) =>
              LET w == store[RollKey].firstAttempt
              IN  /\ Cardinality(Live(w))
                        <= store[RollKey].count + Cardinality(Foreign(w))
                  /\ AuditBytes(Live(w))
                        <= store[RollKey].totalBytes + AuditBytes(Foreign(w))

\* the newer window has admitted more bytes than maxBytes
C23_Witness ==
    /\ burst.mode = "roll"
    /\ last.op = "check"
    /\ last.result.success
    /\ Foreign(store[RollKey].firstAttempt) # {}
    /\ AuditBytes(Live(store[RollKey].firstAttempt)) > GUEST_RATE_LIMIT.maxBytes
    /\ store[RollKey].totalBytes <= GUEST_RATE_LIMIT.maxBytes

(***************************************************************************)
(* Properties of SpecPolicy.                                               *)
(***************************************************************************)
\* C24: when a key is only ever used with one policy class, its stored entry
\* never has a count above maxRequests or totalBytes above maxBytes of that
\* policy, whatever checkRateLimit calls, releases and sweeps preceded.
C24_CeilingInvariant ==
    burst.mode = "policy" =>
        \A k \in DOMAIN store :
            /\ store[k].count <= getConfig(burst.isAuthenticated).maxRequests
            /\ store[k].totalBytes <= getConfig(burst.isAuthenticated).maxBytes

\* an entry at both ceilings, reached again after a release
C24_Witness ==
    /\ burst.mode = "policy"
    /\ burst.isAuthenticated
    /\ last.op = "check"
    /\ last.result.success
    /\ last.key \in DOMAIN last.before
    /\ run[last.key] = Broken
    /\ store[last.key].count = AUTH_RATE_LIMIT.maxRequests
    /\ store[last.key].totalBytes = AUTH_RATE_LIMIT.maxBytes

\* what getRateLimitStatus, evaluated on the store the last call started
\* from and at the same instant, says of a call of the size of the last one
StatusPredicts ==
    LET status == getRateLimitStatus(last.before, now, last.key,
                                     last.isAuthenticated)
    IN  status.remaining >= 1 /\ status.remainingBytes >= last.fileSize

\* the last call found an entry inside its window that holds more bytes than
\* the ceiling of the policy the call names
OverCeilingBefore ==
    /\ ~StaleBefore
    /\ last.before[last.key].totalBytes > LastConfig.maxBytes

\* Spec lets one key be used under both policies; SpecPolicy does not.
\* C27 as stated: status predicts admission.  For any key and policy, a
\* checkRateLimit call of size s is admitted if and only if
\* getRateLimitStatus, evaluated on the store the call started from and at
\* the same instant, reports remaining >= 1 and remainingBytes >= s.
C27_StatusPredictsAdmissionAnyEntry ==
    LastIsCheck => (last.result.success <=> StatusPredicts)

\* C27, amended: status predicts admission when the entry the call finds
\* inside its window holds no more bytes than the ceiling of the policy the
\* call names, which is so for every key used under one policy: the call is
\* admitted if and only if getRateLimitStatus reports remaining >= 1 and
\* remainingBytes >= s.  A call that finds more bytes than the ceiling is
\* rejected whatever the status reports, and the two disagree only on a
\* call of size 0.
C27_StatusPredictsAdmission ==
    LastIsCheck =>
        /\ ~OverCeilingBefore => (last.result.success <=> StatusPredicts)
        /\ OverCeilingBefore => ~last.result.success
        /\ (StatusPredicts /\ ~last.result.success) => last.fileSize = 0
        /\ burst.mode = "policy" => ~OverCeilingBefore

\* an entry at its byte ceiling whose window has elapsed: the status reports
\* a full quota and the call is admitted
C27_Witness ==
    /\ LastIsCheck
    /\ last.result.success
    /\ last.fileSize > 0
    /\ last.key \in DOMAIN last.before
    /\ last.before[last.key].totalBytes = LastConfig.maxBytes
    /\ StaleBefore

\* a call refused although requests remain: the status reports fewer bytes
\* left than the call asks for
C27_WitnessRefused ==
    /\ LastIsCheck
    /\ Rejected("rate_limit_bytes")
    /\ ~StaleBefore
    /\ ~OverCeilingBefore
    /\ getRateLimitStatus(last.before, now, last.key,
                          last.isAuthenticated).remaining >= 1

\* a guest call of size 0 on an entry charged under the signed-in policy:
\* the status reports requests left and 0 bytes left, the call is rejected
C27_WitnessOverCeiling ==
    /\ LastIsCheck
    /\ ~last.isAuthenticated
    /\ OverCeilingBefore
    /\ last.fileSize = 0
    /\ StatusPredicts
    /\ Rejected("rate_limit_bytes")

(***************************************************************************)
(* Properties of SpecTwin.                                                 *)
(***************************************************************************)
\* C28: the sweeper is not observable.  Whatever sweeps ran between the
\* calls, each checkRateLimit and getRateLimitStatus call returns what the
\* same call returns in the run that never sweeps, and the two runs stay
\* indistinguishable to every later status query.
C28_SweeperUnobservable ==
    burst.mode = "twin" =>
        /\ last.op \in {"check", "status"} => last.result = last.twin
        /\ \A k \in Keys, a \in BOOLEAN :
               getRateLimitStatus(store, now, k, a) = getRateLimitStatus(hist, now, k, a)

\* a call that charges bytes on a key whose entry a sweep removed from one
\* run only, admitted in both runs
C28_Witness ==
    /\ burst.mode = "twin"
    /\ last.op = "check"
    /\ last.swept
    /\ last.fileSize > 0
    /\ last.result.success
    /\ last.twin.success

\* a release on a key whose entry a sweep removed from one run only
C28_WitnessRelease ==
    /\ burst.mode = "twin"
    /\ last.op = "release"
    /\ last.swept
    /\ hist # store

(***************************************************************************)
(* Properties of SpecLive.                                                 *)
(***************************************************************************)
\* C29: eventual eviction.  Every entry in the store is eventually removed
\* or replaced by a fresh-window entry, and the entry of a key that gets no
\* further admitted request is eventually absent from the store.
C29_EventualEviction ==
    \A k \in Keys, b \in {0, 1} :
        /\ (burst.mode = "live" /\ MapHas(store, k) /\ burst.gen[k] = b)
               ~> (~MapHas(store, k) \/ burst.gen[k] # b)
        /\ (burst.mode = "live" /\ MapHas(store, k) /\ burst.adm[k] = b)
               ~> (~MapHas(store, k) \/ burst.adm[k] # b)

\* a sweep has just removed an entry that had been created, had aged past
\* its window and was not replaced
C29_Witness ==
    /\ burst.mode = "live"
    /\ last.op = "sweep"
    /\ store = EmptyStore
    /\ \E k \in Keys : burst.gen[k] = 1

(***************************************************************************)
(* Properties of SpecTrip.                                                 *)
(***************************************************************************)
\* the usage of the tracked key in the store s
TripUsage(s) ==
    IF MapHas(s, burst.key)
    THEN [count |-> s[burst.key].count, totalBytes |-> s[burst.key].totalBytes]
    ELSE [count |-> 0, totalBytes |-> 0]

\* every file of the tracked request has been deleted by its DELETE
\* request, and no request is under way
TripDone ==
    /\ burst.mode = "trip"
    /\ burst.phase = "batch"
    /\ inv = EmptyBag
    /\ \A id \in burst.ids : audit[id].deleted

\* C31: once every file of an admitted upload request has been deleted
\* through DELETE /api/files/[fileId] by the same identity from the same
\* address, in the same window and with no other activity on the key, the
\* key's count and totalBytes are what they were before the upload.
C31_UploadDeleteRoundTrip ==
    TripDone => TripUsage(store) = TripUsage(burst.before)

(***************************************************************************)
(* Properties of SpecPair.                                                 *)
(***************************************************************************)
\* C32: an admitted checkRateLimit(key, s) immediately followed by
\* releaseRateLimit(key, s) gives an unexpired entry back its count,
\* totalBytes and firstAttempt, and leaves a key that had no entry with an
\* entry of count 0 and totalBytes 0.
C32_AdmitReleaseRoundTrip ==
    (burst.mode = "pair" /\ last.op = "pair") =>
        LET k == last.key
            had == MapHas(last.before, k)
        IN  /\ MapHas(store, k)
            /\ (had /\ ~IsStale(last.before, k, now, LastConfig)) =>
                   /\ store[k].count = last.before[k].count
                   /\ store[k].totalBytes = last.before[k].totalBytes
                   /\ store[k].firstAttempt = last.before[k].firstAttempt
            /\ ~had =>
                   /\ store[k].count = 0
                   /\ store[k].totalBytes = 0

\* the pair has acted on an unexpired entry that already carried requests
\* and bytes
C32_Witness ==
    /\ burst.mode = "pair"
    /\ last.op = "pair"
    /\ MapHas(last.before, last.key)
    /\ ~IsStale(last.before, last.key, now, LastConfig)
    /\ last.before[last.key].count >= 1
    /\ last.before[last.key].totalBytes > 0
    /\ last.fileSize > 0
    /\ last.admitted[last.key].count = last.before[last.key].count + 1

\* the pair has acted on a key that had no entry
C32_WitnessNoEntry ==
    /\ burst.mode = "pair"
    /\ last.op = "pair"
    /\ ~MapHas(last.before, last.key)
    /\ last.fileSize > 0
    /\ now > 0

(***************************************************************************)
(* Properties of SpecGate.                                                 *)
(***************************************************************************)
\* C33: an upload request refused for missing sign-in, too many files or a
\* file above the per-file size limit is refused before checkRateLimit is
\* called and leaves the store as it was; an upload goes ahead only after
\* checkRateLimit returned success.
C33_ValidationBeforeCharging ==
    (burst.mode = "gate" /\ last.op = "upload") =>
        /\ last.invalid => last.refusal # "none"
        /\ last.refusal # "none" =>
              (~last.called /\ ~last.proceeds /\ store = last.before)
        /\ last.proceeds => (last.called /\ last.success /\ ~last.invalid)

\* a signed-in user's request with one file too many, refused while the
\* store holds earlier uploads
C33_Witness ==
    /\ burst.mode = "gate"
    /\ last.op = "upload"
    /\ last.route = "imageUploader"
    /\ last.userId # Null
    /\ last.invalid
    /\ last.refusal = "too_many_files"
    /\ ~last.called
    /\ store = last.before
    /\ store # EmptyStore

\* a valid request that checkRateLimit rejected, so that it did not go ahead
C33_WitnessRejected ==
    /\ burst.mode = "gate"
    /\ last.op = "upload"
    /\ ~last.invalid
    /\ last.called
    /\ ~last.success
    /\ ~last.proceeds

\* a signed-in user's file above 64 MB whose type names an inherited
\* member: it is not refused, and goes ahead after checkRateLimit admitted
\* it
C33_WitnessInherited ==
    /\ burst.mode = "gate"
    /\ last.op = "upload"
    /\ last.userId # Null
    /\ last.unmeasured
    /\ last.refusal = "none"
    /\ last.called
    /\ last.success
    /\ last.proceeds
    /\ store # last.before

(***************************************************************************)
(* Properties of SpecDeny.                                                 *)
(***************************************************************************)
\* C34: a DELETE /api/files/[fileId] request that ends with 404 or 401
\* never calls releaseRateLimit and leaves the rate limit store and the
\* file records as they were.
C34_RefusedDeleteFrame ==
    [][(/\ burst.mode = "deny"
        /\ last'.op = "delete"
        /\ last'.status \in {404, 401})
          => (/\ ~last'.called
              /\ store' = store
              /\ db' = db
              /\ audit' = audit
              /\ inv' = inv)]_vars

\* a DELETE answered 401 while the file is on record and the store holds
\* the charge of its upload
C34_Witness ==
    /\ burst.mode = "deny"
    /\ last.op = "delete"
    /\ ~last.called
    /\ last.status = 401
    /\ \E id \in DOMAIN db :
          /\ db[id].uploadThingId \in DOMAIN audit
          /\ MapHas(store, audit[db[id].uploadThingId].key)
          /\ store[audit[db[id].uploadThingId].key].totalBytes >= db[id].size
          /\ audit[db[id].uploadThingId].releases = <<>>

\* a DELETE answered 404 after the file was deleted
C34_WitnessNotFound ==
    /\ burst.mode = "deny"
    /\ last.op = "delete"
    /\ ~last.called
    /\ last.status = 404
    /\ \E id \in DOMAIN audit : audit[id].deleted

(***************************************************************************)
(* Properties of SpecQuota.                                                *)
(***************************************************************************)
\* the decision checkRateLimit takes for the caller of the last GET on an
\* upload of total size s at the same instant
QuotaAdmits(s) ==
    checkRateLimit(store, now, last.key, s, last.isAuthenticated).result.success

\* C35: whenever GET /api/rate-limit reports remaining >= 1 and
\* remainingBytes >= s, an upload of total size s by the same identity at
\* the same instant is admitted by checkRateLimit, and whenever it reports
\* remaining = 0 such an upload is rejected.
C35_DisplayedQuotaAgrees ==
    (burst.mode = "quota" /\ last.op = "rate_limit") =>
        \A s \in AppSizes \cup {0, GUEST_RATE_LIMIT.maxBytes} :
            /\ (last.remaining >= 1 /\ last.remainingBytes >= s) => QuotaAdmits(s)
            /\ last.remaining = 0 => ~QuotaAdmits(s)

\* the same statement for the implementation that reads the Map
C35_MemoryVariantAgrees ==
    (burst.mode = "quota" /\ last.op = "rate_limit" /\ last.variant = "memory") =>
        \A s \in AppSizes \cup {0, GUEST_RATE_LIMIT.maxBytes} :
            /\ (last.remaining >= 1 /\ last.remainingBytes >= s) => QuotaAdmits(s)
            /\ last.remaining = 0 => ~QuotaAdmits(s)

(***************************************************************************)
(* Properties of SpecSpoof.                                                *)
(***************************************************************************)
\* the keys of the signed-in users
UserKeys == {getRateLimitKey(u, HomeIp) : u \in Users}

\* C36: the key derived for a signed-in user never equals the key derived
\* for an anonymous origin, whatever address the origin presents, so that
\* no anonymous call is made on a signed-in user's key or changes that
\* user's entry.
C36_DisjointNamespaces ==
    burst.mode = "spoof" =>
        /\ \A i, j \in 1..Len(hist) :
               (hist[i].userId # Null /\ hist[j].userId = Null)
                   => hist[i].key # hist[j].key
        /\ (last.called /\ hist[Len(hist)].userId = Null) =>
               /\ last.key \notin UserKeys
               /\ \A k \in UserKeys :
                      /\ MapHas(store, k) <=> MapHas(last.before, k)
                      /\ MapHas(store, k) => store[k] = last.before[k]

\* a signed-in user holds an entry, and anonymous callers presenting the
\* user's id and the user's key as their address have been admitted
C36_Witness ==
    /\ burst.mode = "spoof"
    /\ \E k \in UserKeys : MapHas(store, k) /\ store[k].count >= 1
    /\ \E i \in 1..Len(hist) : hist[i].userId = Null /\ hist[i].ip = "u1"
    /\ last.called
    /\ last.op = "check"
    /\ hist[Len(hist)].userId = Null
    /\ hist[Len(hist)].ip = "user:u1"
    /\ MapHas(store, last.key)
    /\ store[last.key].count >= 1

(***************************************************************************)
(* Properties of SpecConc.                                                 *)
(***************************************************************************)
\* C1: of maxRequests + K checkRateLimit calls fired at one key that has no
\* entry, under one policy, inside one window and with sizes that fit
\* maxBytes, never more than maxRequests are admitted, and when all have
\* returned exactly maxRequests were admitted and K rejected, in whatever
\* order the event loop ran them.
C1_ConcurrentAdmission ==
    (burst.mode = "burst"
       /\ now <= getConfig(burst.isAuthenticated).windowMs) =>
        /\ burst.admitted <= getConfig(burst.isAuthenticated).maxRequests
        /\ (burst.pending = 0 /\ inv = EmptyBag) =>
              /\ burst.admitted = getConfig(burst.isAuthenticated).maxRequests
              /\ burst.rejected = burst.extra

C1_Witness ==
    /\ burst.mode = "burst"
    /\ burst.pending = 0
    /\ inv = EmptyBag
    /\ now <= getConfig(burst.isAuthenticated).windowMs
    /\ now > 0
    /\ burst.admitted = getConfig(burst.isAuthenticated).maxRequests
    /\ burst.rejected = burst.extra
    /\ burst.extra > 1
    /\ store[CHOOSE k \in Keys : TRUE].totalBytes > 0

\* C2: every checkRateLimit, releaseRateLimit and sweeper invocation that
\* returns has had the effect on the store, and returns the decision, of
\* the whole function applied in one step to the store it started from: the
\* invocations take effect one after the other, in the order they ran.
C2_AtomicPerCall ==
    /\ (last.op = "check" /\ burst.mode \in {"burst", "mixed"}) =>
          LET out == checkRateLimit(last.before, last.at, last.key,
                                    last.fileSize, last.isAuthenticated)
          IN  /\ store = out.store
              /\ last.result = out.result
    /\ (last.op = "release" /\ burst.mode \in {"burst", "mixed"}) =>
          store = releaseRateLimit(last.before, last.key, last.fileSize)
    /\ (last.op = "sweep" /\ burst.mode \in {"burst", "mixed"}) =>
          store = cleanupExpiredEntries(last.before, last.at)

C2_Witness ==
    /\ burst.mode = "mixed"
    /\ last.op = "release"
    /\ last.key \in DOMAIN last.before
    /\ last.before[last.key].count = 2
    /\ store[last.key].count = 1
    /\ store[last.key].totalBytes < last.before[last.key].totalBytes
    /\ now > last.at

\* invocation r has written the count of the stored entry of its key (line
\* 134 or 207) and not yet its bytes (line 135 or 209)
HalfWritten(r, s) ==
    /\ r.op \in {"check", "release"}
    /\ r.pc = "bytes"
    /\ r.alias
    /\ MapHas(s, r.key)

\* C21: the status a getRateLimitStatus call returns is computed from the
\* entry it reads, and no checkRateLimit or releaseRateLimit invocation on
\* the same key has, at that moment, written the count of that entry
\* without its bytes: the entry read is the one from before or from after
\* every update.
C21_NoTornRead ==
    (last.op = "status" /\ burst.mode = "mixed") =>
        /\ last.result = getRateLimitStatus(last.before, last.at, last.key,
                                            last.isAuthenticated)
        /\ \A r \in BagToSet(last.inflight) :
              r.key = last.key => ~HalfWritten(r, last.before)

C21_Witness ==
    /\ burst.mode = "mixed"
    /\ last.op = "status"
    /\ burst.pending > 0
    /\ burst.admitted > 0
    /\ last.result.totalBytes > 0
    /\ last.result.remaining < getConfig(last.isAuthenticated).maxRequests

====
